---------------------------- MODULE Spec2Model ----------------------------
(***************************************************************************)
(* A model of the tts-ln pipeline orchestrator: the Redis-backed store     *)
(* (libs/db.py, libs/models.py), the Book-Discovery handler and its        *)
(* range filter (workers/book/tasks.py), the processing stage handlers     *)
(* (workers/{metadata,chapter,tts,converter,completed}/tasks.py), the      *)
(* Remote-Sync handler with its dedup lock (workers/sync/tasks.py) and     *)
(* the retry behaviour the handlers get from celery.                       *)
(*                                                                         *)
(* Time is discrete: one Tick is TimeUnit seconds.  A queued message, a    *)
(* lock key and a running transfer each carry their own remaining or       *)
(* elapsed time, so no global clock is needed.                             *)
(***************************************************************************)
EXTENDS Naturals, Sequences, FiniteSets, Bags, TLC

VARIABLES
    kv,      \* redis string keys "<type>:<id>" -> serialized entity
    sets,    \* redis set keys -> set of members (a key with no members is absent)
    locks,   \* redis keys written with SET NX EX: key -> [value, ttl]
    queue,   \* bag of messages waiting in the broker
    exec,    \* worker -> the handler execution in progress on it
    done,    \* history: the attempts that have ended, with their outcome
    injected,\* book-injection requests accepted so far
    down,    \* environment: the external collaborators that currently fail
    site,    \* environment: the chapter links the source site lists for the book
    fcall,   \* the filter_chapters call under test (FilterSpec)
    built    \* the entities constructed so far (HashSpec)

vars == <<kv, sets, locks, queue, exec, done, injected, down, site, fcall, built>>

---------------------------------------------------------------------------
(* Bounds of the model *)

NWorkers == 2        \* worker processes that can hold a multi-step execution
TimeUnit == 300      \* seconds per Tick
MaxRuns == 2         \* Book-Discovery requests injected in Spec
MaxBuilt == 2        \* entities constructed in HashSpec
MaxLen == 3          \* length of the chapter lists filter_chapters is applied to
MaxChapters == 3     \* chapter links the site lists in ScenarioSpec

(* Program constants *)

LOCK_TTL == 600               \* SET ... ex=600
TRANSFER_TIMEOUT == 1800      \* subprocess.run(..., timeout=1800)
SYNC_DELAY == 300             \* process_completed: countdown=300
SYNC_RETRY_BASE == 300        \* process_sync: countdown=300 * 2 ** retries
RETRY_BASE == 60              \* processing stages: countdown=60 * 2 ** retries
RETRY_KW_COUNTDOWN == 60      \* retry_kwargs 'countdown' of the processing stages
SYNC_KW_COUNTDOWN == 300      \* retry_kwargs 'countdown' of process_sync
MAX_RETRIES == 5              \* retry_kwargs 'max_retries' of the processing stages
SYNC_MAX_RETRIES == 3         \* retry_kwargs 'max_retries' of process_sync
RETRY_BACKOFF_MAX == 600      \* task_retry_backoff_max

\* Python's None, and a present value of a type that is no record here
None == [none |-> TRUE]
Some(x) == [value |-> x]
Workers == 1..NWorkers

\* ceil(seconds / TimeUnit): the Ticks a delay of that many seconds lasts
Ticks(seconds) == (seconds + TimeUnit - 1) \div TimeUnit

RECURSIVE Pow2(_)
Pow2(n) == IF n = 0 THEN 1 ELSE 2 * Pow2(n - 1)

---------------------------------------------------------------------------
(* libs/models.py: Status, fingerprints *)

Status == {"PENDING", "PROCESSING", "COMPLETED", "FAILED"}

\* Enum member -> its value (what _serialize stores)
StatusValue(s) ==
    CASE s = "PENDING" -> "pending"
      [] s = "PROCESSING" -> "processing"
      [] s = "COMPLETED" -> "completed"
      [] s = "FAILED" -> "failed"

\* Status(value): value -> enum member (what __init__ does on deserialization)
StatusOf(v) ==
    CASE v = "pending" -> "PENDING"
      [] v = "processing" -> "PROCESSING"
      [] v = "completed" -> "COMPLETED"
      [] v = "failed" -> "FAILED"

\* hashlib.md5(...).hexdigest(): an injective digest of the string
md5(s) == "#" \o s

\* ChapterProcessingData.generate_hash with a plausible slip: the book is hashed in
generate_hash_with_book(self) == md5(self.title \o ":" \o self.url \o ":" \o self.book_hash)

\* ChapterProcessingData.generate_hash: md5(f"{self.title}:{self.url}")
generate_hash(self) == md5(self.title \o ":" \o self.url)

\* ScrapedBook.generate_hash: md5(self.title)
book_generate_hash(self) == md5(self.title)

\* ChapterProcessingData.__init__: chapter_hash or self.generate_hash(); a chapter_hash
\* that is not given (None) or empty is "" here.
\* The file-location fields are functions of book_name and title and are left out.
ChapterProcessingData(book_hash, status, created_at, title, url, book_name, chapter_hash, chapter_number) ==
    LET self == [ book_hash |-> book_hash,
                  created_at |-> created_at,
                  title |-> title,
                  url |-> url,
                  book_name |-> book_name,
                  status |-> IF status \in Status THEN status ELSE StatusOf(status),
                  chapter_number |-> chapter_number ]
    IN  [ type |-> "chapterprocessingdata",
          chapter_hash |-> IF chapter_hash = "" THEN generate_hash(self) ELSE chapter_hash,
          chapter_number |-> self.chapter_number,
          book_hash |-> self.book_hash,
          status |-> self.status,
          created_at |-> self.created_at,
          title |-> self.title,
          url |-> self.url,
          book_name |-> self.book_name ]

\* a BookChapterLink instance; a record without the cls field is a plain dict
Link(title, url) == [cls |-> "BookChapterLink", title |-> title, url |-> url]

\* ScrapedBook.__init__: book_hash or self.generate_hash(); no book_hash is ""
ScrapedBook(title, chapters, book_hash, metadata_url) ==
    [ type |-> "scrapedbook",
      title |-> title,
      chapters |-> chapters,
      metadata_url |-> metadata_url,
      book_hash |-> IF book_hash = ""
                    THEN book_generate_hash([title |-> title])
                    ELSE book_hash ]

\* BookProcessingData
BookProcessingData(book_title, book_hash) ==
    [ type |-> "bookprocessingdata", book_title |-> book_title, book_hash |-> book_hash ]

\* ScrapedChapterContent.__init__
ScrapedChapterContent(title, content, chapter_hash, url) ==
    [ type |-> "scrapedchaptercontent",
      title |-> title, content |-> content, url |-> url, chapter_hash |-> chapter_hash ]

\* ScrapedMetadata as the scraper builds it (only the fields the handlers read)
ScrapedMetadata(title, image) ==
    [ type |-> "scrapedmetadata", title |-> title, image |-> image ]

---------------------------------------------------------------------------
(* libs/db.py: RedisDB over the redis keys kv (strings) and sets (sets).   *)
(* A store value st is the pair [kv, sets]; each operator returns the new  *)
(* store or the value read.                                                *)

_generate_key(model_type, identifier) == model_type \o ":" \o identifier
_generate_list_key(model_type) == model_type \o ":all"

\* redis SADD / SREM / SMEMBERS; a set that becomes empty is no key any more
smembers(ss, key) == IF key \in DOMAIN ss THEN ss[key] ELSE {}
sadd(ss, key, member) ==
    [k \in DOMAIN ss \cup {key} |-> IF k = key THEN smembers(ss, key) \cup {member} ELSE ss[k]]
srem(ss, key, member) ==
    LET rest == smembers(ss, key) \ {member}
        dom == IF rest = {} THEN DOMAIN ss \ {key} ELSE DOMAIN ss
    IN  [k \in dom |-> IF k = key THEN rest ELSE ss[k]]

\* dataclasses.asdict of a nested dataclass instance: a dict of its fields
asdict(x) == IF "cls" \in DOMAIN x THEN [f \in DOMAIN x \ {"cls"} |-> x[f]] ELSE x

\* _serialize: asdict (which recurses into the chapter links of a book) with every
\* Enum field replaced by its value
_serialize(obj) ==
    IF obj.type = "chapterprocessingdata"
    THEN [obj EXCEPT !.status = StatusValue(obj.status)]
    ELSE IF obj.type = "scrapedbook"
    THEN [obj EXCEPT !.chapters = [k \in 1..Len(obj.chapters) |-> asdict(obj.chapters[k])]]
    ELSE obj

\* _deserialize: model_class(**obj_dict); the chapters of a book stay the dicts that
\* json.loads made
_deserialize(data) ==
    IF data.type = "chapterprocessingdata"
    THEN ChapterProcessingData(data.book_hash, data.status, data.created_at, data.title,
                               data.url, data.book_name, data.chapter_hash,
                               data.chapter_number)
    ELSE IF data.type = "scrapedbook"
    THEN ScrapedBook(data.title, data.chapters, data.book_hash, data.metadata_url)
    ELSE data

\* RedisDB.save: SET key, then SADD <type>:all.  When redis_client.set raises, the
\* except block prints the error and returns False: nothing is written, nothing is
\* raised to the caller.
db_save(st, obj, identifier) ==
    IF "redis_set" \in down THEN st ELSE
    [ kv |-> [k \in DOMAIN st.kv \cup {_generate_key(obj.type, identifier)} |->
                 IF k = _generate_key(obj.type, identifier)
                 THEN _serialize(obj) ELSE st.kv[k]],
      sets |-> sadd(st.sets, _generate_list_key(obj.type), identifier) ]

\* RedisDB.get
db_get(st, model_type, identifier) ==
    IF _generate_key(model_type, identifier) \in DOMAIN st.kv
    THEN _deserialize(st.kv[_generate_key(model_type, identifier)])
    ELSE None

\* RedisDB.delete: DELETE key, then SREM <type>:all
db_delete(st, model_type, identifier) ==
    [ kv |-> [k \in DOMAIN st.kv \ {_generate_key(model_type, identifier)} |-> st.kv[k]],
      sets |-> srem(st.sets, _generate_list_key(model_type), identifier) ]

\* RedisDB.update with a plausible slip: the existence check is left out (an upsert)
db_update_upsert(st, obj, identifier) ==
    db_save(st, obj, identifier)

\* RedisDB.update: SET key when the key exists (the index <type>:all is not written);
\* the store after it, and what it returns
db_update(st, obj, identifier) ==
    IF _generate_key(obj.type, identifier) \in DOMAIN st.kv
    THEN [st EXCEPT !.kv = [@ EXCEPT ![_generate_key(obj.type, identifier)] = _serialize(obj)]]
    ELSE st
db_update_returns(st, obj, identifier) ==
    _generate_key(obj.type, identifier) \in DOMAIN st.kv

\* RedisDB.delete returns deleted > 0
db_delete_returns(st, model_type, identifier) ==
    _generate_key(model_type, identifier) \in DOMAIN st.kv

\* RedisDB.count: SCARD <type>:all
db_count(st, model_type) == Cardinality(smembers(st.sets, _generate_list_key(model_type)))

\* RedisDB.exists
db_exists(st, model_type, identifier) ==
    _generate_key(model_type, identifier) \in DOMAIN st.kv

\* ChapterProcessingData.save with a plausible slip: save_book_chapter is not called
chapter_save_unindexed(st, chapter) == db_save(st, chapter, chapter.chapter_hash)

\* ChapterProcessingData.save: db.save, then save_book_chapter (SADD book:<hash>:chapters)
chapter_save(st, chapter) ==
    LET st1 == db_save(st, chapter, chapter.chapter_hash)
    IN  [st1 EXCEPT !.sets = sadd(st1.sets, "book:" \o chapter.book_hash \o ":chapters",
                                   chapter.chapter_hash)]

Store == [kv |-> kv, sets |-> sets]

\* The entities of one type that are stored
Stored(st, model_type) ==
    {_deserialize(st.kv[k]) : k \in {x \in DOMAIN st.kv : st.kv[x].type = model_type}}

---------------------------------------------------------------------------
(* workers/book/tasks.py: the range filter.  Python indexes from 0, a TLA+ *)
(* sequence from 1: chapters[i] of the code is chapters[i + 1] here.       *)

RECURSIVE find_from(_, _, _)
find_from(chapters, url, i) ==
    IF i >= Len(chapters) THEN None
    ELSE IF chapters[i + 1].url = url THEN Some(i)
    ELSE find_from(chapters, url, i + 1)

\* _find_chapter_index: next(i for i, chapter in enumerate(chapters) if chapter.url == url)
_find_chapter_index(chapters, url) == find_from(chapters, url, 0)

\* filter_chapters with a plausible slip: range(start_index, end_index)
filter_chapters_exclusive(chapters, start_from, end_at) ==
    LET start_index == _find_chapter_index(chapters, start_from)
        end_index == _find_chapter_index(chapters, end_at)
    IN  IF start_index = None THEN None
        ELSE IF end_index = None THEN None
        ELSE IF end_index.value < start_index.value THEN None
        ELSE Some([k \in 1..(end_index.value - start_index.value) |->
                      <<start_index.value + k - 1, chapters[start_index.value + k]>>])

\* filter_chapters with a plausible slip: markers in the wrong order are swapped
filter_chapters_swapping(chapters, start_from, end_at) ==
    LET start_index == _find_chapter_index(chapters, start_from)
        end_index == _find_chapter_index(chapters, end_at)
        lo == IF end_index.value < start_index.value THEN end_index.value
              ELSE start_index.value
        hi == IF end_index.value < start_index.value THEN start_index.value
              ELSE end_index.value
    IN  IF start_index = None THEN None
        ELSE IF end_index = None THEN None
        ELSE Some([k \in 1..(hi + 1 - lo) |-> <<lo + k - 1, chapters[lo + k]>>])

\* filter_chapters: the (index, chapter) pairs of range(start_index, end_index + 1)
filter_chapters(chapters, start_from, end_at) ==
    LET start_index == _find_chapter_index(chapters, start_from)
        end_index == _find_chapter_index(chapters, end_at)
    IN  IF start_index = None THEN None
        ELSE IF end_index = None THEN None
        ELSE IF end_index.value < start_index.value THEN None
        ELSE Some([k \in 1..(end_index.value + 1 - start_index.value) |->
                      <<start_index.value + k - 1, chapters[start_index.value + k]>>])

---------------------------------------------------------------------------
(* The environment: the source site, the collaborators, the requests *)

\* scrape_book_chapters, scrape_book_metadata, download_image, scrape_chapter_content,
\* generate_tts, AudioSegment (ffmpeg), rsync exiting non-zero, rsync not ending
Collaborators ==
    {"scrape_book", "scrape_metadata", "download_image", "scrape_chapter",
     "generate_tts", "ffmpeg", "rsync_exit", "rsync_hang"}

SiteTitle == "T"
BookUrl == "u"
ShortName == "bk"
GoodReadsUrl == "g"

\* libs/scraper.py scrape_book_chapters: the book the site shows, None when scraping fails
scrape_book_chapters(book_url) ==
    IF "scrape_book" \in down THEN None ELSE ScrapedBook(SiteTitle, site, "", "")

\* libs/scraper.py scrape_book_metadata
scrape_book_metadata(metadata_url) ==
    IF "scrape_metadata" \in down THEN None ELSE ScrapedMetadata(SiteTitle, "img")

\* libs/scraper.py scrape_chapter_content: the title is the page's own
scrape_chapter_content(chapter_url) ==
    IF "scrape_chapter" \in down THEN None
    ELSE ScrapedChapterContent("page " \o chapter_url, "text", "", "")

---------------------------------------------------------------------------
(* Messages and celery's retry *)

\* app.send_task(name, args=[chapter_hash], countdown=...)
Msg(task, arg, countdown) ==
    [task |-> task, arg |-> arg, retries |-> 0, delays |-> <<>>, wait |-> Ticks(countdown)]

\* process_book.delay(input_data)
BookMsg(input_data) ==
    [task |-> "process_book", input_data |-> input_data, retries |-> 0, delays |-> <<>>,
     wait |-> 0]

Send(q, m) == q (+) SetToBag({m})
Take(q, m) == q (-) SetToBag({m})
Ready(task) == {m \in BagToSet(queue) : m.task = task /\ m.wait = 0}

\* retry_kwargs of the task decorators
retry_kwargs(task) ==
    IF task = "process_sync"
    THEN [max_retries |-> SYNC_MAX_RETRIES, countdown |-> SYNC_KW_COUNTDOWN]
    ELSE [max_retries |-> MAX_RETRIES, countdown |-> RETRY_KW_COUNTDOWN]

\* celery Task.retry with a plausible slip: the unit is sent again as a new message, so
\* its count of redeliveries starts again and no ceiling is ever reached
task_retry_as_new(m, countdown, max_retries) ==
    [m EXCEPT !.wait = Ticks(countdown)]

\* celery Task.retry(exc, countdown, max_retries): the message redelivered with
\* retries + 1 after countdown seconds, or None when retries + 1 > max_retries and
\* exc is raised instead
task_retry(m, countdown, max_retries) ==
    IF m.retries + 1 > max_retries THEN None
    ELSE [m EXCEPT !.retries = @ + 1, !.delays = Append(@, countdown),
                   !.wait = Ticks(countdown)]

\* celery's autoretry_for=(Exception,) wrapper around the handler: an exception that
\* leaves the handler is retried as task.retry(exc=exc, **retry_kwargs)
autoretry(m) ==
    task_retry(m, retry_kwargs(m.task).countdown, retry_kwargs(m.task).max_retries)

\* raise self.retry(exc=exc, countdown=countdown) in a handler's except block.  No
\* decorator sets the task's max_retries, so this call is checked against celery's
\* Task.max_retries default, 3; when that is exceeded Task.retry raises exc, which
\* leaves the handler and reaches the autoretry wrapper.
self_retry(m, countdown) ==
    IF task_retry(m, countdown, 3) # None
    THEN task_retry(m, countdown, 3)
    ELSE autoretry(m)

\* the except block of the processing stages: if self.request.retries >= 5: return,
\* else raise self.retry(exc=exc, countdown=60 * (2 ** self.request.retries))
except_retry(m) ==
    IF m.retries >= MAX_RETRIES THEN None
    ELSE self_retry(m, RETRY_BASE * Pow2(m.retries))

\* A message put back by a retry (r is None when the unit of work is dropped)
Requeue(q, m, r) == IF r = None THEN Take(q, m) ELSE Send(Take(q, m), r)

\* One ended attempt, for the history
Attempt(m, key, outcome, failed, r, dispatched) ==
    [task |-> m.task, key |-> key, retries |-> m.retries, outcome |-> outcome,
     failed |-> failed, redelivered |-> r # None, dispatched |-> dispatched]

Idle == [pc |-> "idle"]

---------------------------------------------------------------------------
(* workers/book/tasks.py: Book-Discovery.  One execution is the steps      *)
(* BookReceive (scrape, filter, save the book), then per chapter of the    *)
(* range BookCheck (the idempotency check) and BookSave (save, dispatch),  *)
(* then BookReturn; other handlers can run between the steps.              *)

\* _extract_input_parameters applied to the request payload
InputData(start_from_url, process_until_url) ==
    [book_url |-> BookUrl, good_reads_url |-> GoodReadsUrl, short_book_name |-> ShortName,
     start_from_url |-> start_from_url, process_until_url |-> process_until_url]

\* _prepare_book_with_filtered_chapters with a plausible slip: the list is not restricted
_prepare_book_unfiltered(book, filtered_chapters, good_reads_url) ==
    [book EXCEPT !.metadata_url = good_reads_url]

\* _prepare_book_with_filtered_chapters: the book restricted to the range
_prepare_book_with_filtered_chapters(book, filtered_chapters, good_reads_url) ==
    [book EXCEPT !.chapters = [k \in 1..Len(filtered_chapters) |-> filtered_chapters[k][2]],
                 !.metadata_url = good_reads_url]

\* _create_chapter_processing_data (created_at, a timestamp, is abstracted to "now")
_create_chapter_processing_data(book_hash, short_book_name, chapter_number, scraped_chapter) ==
    ChapterProcessingData(book_hash, "PENDING", "now", scraped_chapter.title,
                          scraped_chapter.url, short_book_name, "", chapter_number)

\* _is_chapter_already_completed with a plausible slip: the check is dropped
_is_chapter_never_completed(st, chapter_hash) == FALSE

\* _is_chapter_already_completed
_is_chapter_already_completed(st, chapter_hash) ==
    LET existing_chapter == db_get(st, "chapterprocessingdata", chapter_hash)
    IN  existing_chapter # None /\ existing_chapter.status = "COMPLETED"

\* _dispatch_chapter_to_next_worker with a plausible slip: the branches are swapped
_dispatch_chapter_swapped(st, chapter, book_hash) ==
    IF db_exists(st, "scrapedmetadata", book_hash)
    THEN Msg("process_metadata", chapter.chapter_hash, 0)
    ELSE Msg("process_chapter", chapter.chapter_hash, 0)

\* _dispatch_chapter_to_next_worker: the message it sends
_dispatch_chapter_to_next_worker(st, chapter, book_hash) ==
    IF db_exists(st, "scrapedmetadata", book_hash)
    THEN Msg("process_chapter", chapter.chapter_hash, 0)
    ELSE Msg("process_metadata", chapter.chapter_hash, 0)

\* the book-injection request: process_book is queued with the payload
Inject(start_from_url, process_until_url) ==
    /\ injected < MaxRuns
    /\ injected' = injected + 1
    /\ queue' = Send(queue, BookMsg(InputData(start_from_url, process_until_url)))
    /\ UNCHANGED <<kv, sets, locks, exec, done, down, site, fcall, built>>

\* process_book up to the loop: scrape, filter, save the book
BookReceive(w, m) ==
    /\ exec[w] = Idle
    /\ m \in Ready("process_book")
    /\ LET inp == m.input_data
           book == scrape_book_chapters(inp.book_url)
           filtered == IF book = None THEN None
                       ELSE filter_chapters(book.chapters, inp.start_from_url,
                                            inp.process_until_url)
       IN  IF book = None
           THEN \* book.chapters raises; except: raise self.retry(...)
                LET r == self_retry(m, RETRY_BASE * Pow2(m.retries))
                IN  /\ queue' = Requeue(queue, m, r)
                    /\ done' = done \cup {Attempt(m, inp.book_url, "error", TRUE, r, 0)}
                    /\ UNCHANGED <<kv, sets, exec>>
           ELSE IF filtered = None \/ filtered = Some(<<>>)
           THEN \* if not filtered_chapters: return ""
                /\ queue' = Take(queue, m)
                /\ done' = done \cup {Attempt(m, inp.book_url, "empty", FALSE, None, 0)}
                /\ UNCHANGED <<kv, sets, exec>>
           ELSE LET saved == _prepare_book_with_filtered_chapters(
                                 book, filtered.value, inp.good_reads_url)
                    st == db_save(Store, saved, saved.book_hash)
                IN  /\ kv' = st.kv
                    /\ sets' = st.sets
                    /\ queue' = Take(queue, m)
                    /\ exec' = [exec EXCEPT ![w] =
                          [ task |-> "process_book", pc |-> "check", msg |-> m,
                            book |-> saved, filtered |-> filtered.value, i |-> 1,
                            chapter |-> None, sent |-> <<>>, skipped |-> {},
                            fresh |-> Stored(Store, "chapterprocessingdata") = {}
                                      /\ Stored(Store, "scrapedbook") = {},
                            had_metadata |-> db_exists(Store, "scrapedmetadata",
                                                       saved.book_hash) ]]
                    /\ UNCHANGED done
    /\ UNCHANGED <<locks, injected, down, site, fcall, built>>

\* after an iteration of the loop of _process_filtered_chapters
NextChapter(e) ==
    IF e.i = Len(e.filtered)
    THEN [e EXCEPT !.pc = "return", !.chapter = None]
    ELSE [e EXCEPT !.pc = "check", !.i = @ + 1, !.chapter = None]

\* one iteration up to the check: build the chapter, skip it when already completed
BookCheck(w) ==
    /\ exec[w].pc = "check"
    /\ exec[w].task = "process_book"
    /\ LET e == exec[w]
           chapter == _create_chapter_processing_data(
                          e.book.book_hash, e.msg.input_data.short_book_name,
                          e.filtered[e.i][1], e.filtered[e.i][2])
       IN  IF _is_chapter_already_completed(Store, chapter.chapter_hash)
           THEN exec' = [exec EXCEPT ![w] =
                            NextChapter([e EXCEPT !.skipped = @ \cup {chapter.chapter_hash}])]
           ELSE exec' = [exec EXCEPT ![w] = [e EXCEPT !.pc = "save", !.chapter = chapter]]
    /\ UNCHANGED <<kv, sets, locks, queue, done, injected, down, site, fcall, built>>

\* the rest of the iteration: chapter.save() and _dispatch_chapter_to_next_worker
BookSave(w) ==
    /\ exec[w].pc = "save"
    /\ exec[w].task = "process_book"
    /\ LET e == exec[w]
           st == chapter_save(Store, e.chapter)
           m == _dispatch_chapter_to_next_worker(st, e.chapter, e.book.book_hash)
       IN  /\ kv' = st.kv
           /\ sets' = st.sets
           /\ queue' = Send(queue, m)
           /\ exec' = [exec EXCEPT ![w] = NextChapter([e EXCEPT !.sent = Append(@, m)])]
    /\ UNCHANGED <<locks, done, injected, down, site, fcall, built>>

\* return book.title; the message is acknowledged
BookReturn(w) ==
    /\ exec[w].pc = "return"
    /\ exec[w].task = "process_book"
    /\ done' = done \cup {Attempt(exec[w].msg, exec[w].msg.input_data.book_url, "success",
                                  FALSE, None, Len(exec[w].sent))}
    /\ exec' = [exec EXCEPT ![w] = Idle]
    /\ UNCHANGED <<kv, sets, locks, queue, injected, down, site, fcall, built>>

---------------------------------------------------------------------------
(* The processing stages.  Metadata-Enrichment and Chapter-Scrape call a   *)
(* slow collaborator after their first store accesses, so each is two      *)
(* steps (up to the call, and from its result on); the other stages are    *)
(* one step.  A message is taken from the queue when its handler starts.   *)

Redeliver(q, r) == IF r = None THEN q ELSE Send(q, r)
GetChapter(hash) == db_get(Store, "chapterprocessingdata", hash)

\* process_metadata's first half with a plausible slip: no test for an existing record
MetadataReceive_rescrapes(w, m) ==
    /\ exec[w] = Idle
    /\ m \in Ready("process_metadata")
    /\ LET chapter_data == GetChapter(m.arg)
           book == IF chapter_data = None THEN None
                   ELSE db_get(Store, "scrapedbook", chapter_data.book_hash)
       IN  IF chapter_data = None \/ book = None
           THEN /\ queue' = Take(queue, m)
                /\ done' = done \cup {Attempt(m, m.arg, "not_found", FALSE, None, 0)}
                /\ UNCHANGED exec
           ELSE /\ queue' = Take(queue, m)
                /\ exec' = [exec EXCEPT ![w] =
                      [task |-> "process_metadata", pc |-> "scrape", msg |-> m,
                       chapter |-> chapter_data, book |-> book]]
                /\ UNCHANGED done
    /\ UNCHANGED <<kv, sets, locks, injected, down, site, fcall, built>>

\* process_metadata up to scrape_book_metadata
MetadataReceive(w, m) ==
    /\ exec[w] = Idle
    /\ m \in Ready("process_metadata")
    /\ LET chapter_data == GetChapter(m.arg)
           book == IF chapter_data = None THEN None
                   ELSE db_get(Store, "scrapedbook", chapter_data.book_hash)
       IN  IF chapter_data = None
           THEN /\ queue' = Take(queue, m)
                /\ done' = done \cup {Attempt(m, m.arg, "not_found", FALSE, None, 0)}
                /\ UNCHANGED exec
           ELSE IF db_exists(Store, "scrapedmetadata", chapter_data.book_hash)
           THEN /\ queue' = Send(Take(queue, m), Msg("process_chapter", m.arg, 0))
                /\ done' = done \cup {Attempt(m, m.arg, "success", FALSE, None, 1)}
                /\ UNCHANGED exec
           ELSE IF book = None
           THEN /\ queue' = Take(queue, m)
                /\ done' = done \cup {Attempt(m, m.arg, "not_found", FALSE, None, 0)}
                /\ UNCHANGED exec
           ELSE /\ queue' = Take(queue, m)
                /\ exec' = [exec EXCEPT ![w] =
                      [task |-> "process_metadata", pc |-> "scrape", msg |-> m,
                       chapter |-> chapter_data, book |-> book]]
                /\ UNCHANGED done
    /\ UNCHANGED <<kv, sets, locks, injected, down, site, fcall, built>>

\* process_metadata's second half with a plausible slip: the chapter is dispatched but
\* the scraped metadata is not saved
MetadataFinish_dispatches_unsaved(w) ==
    /\ exec[w].pc = "scrape"
    /\ exec[w].task = "process_metadata"
    /\ LET e == exec[w]
           m == e.msg
           metadata == scrape_book_metadata(e.book.metadata_url)
       IN  IF metadata = None \/ "download_image" \in down
           THEN LET r == except_retry(m)
                IN  /\ queue' = Redeliver(queue, r)
                    /\ done' = done \cup {Attempt(m, m.arg, "error", TRUE, r, 0)}
           ELSE /\ queue' = Send(queue, Msg("process_chapter", m.arg, 0))
                /\ done' = done \cup {Attempt(m, m.arg, "success", FALSE, None, 1)}
    /\ exec' = [exec EXCEPT ![w] = Idle]
    /\ UNCHANGED <<kv, sets, locks, injected, down, site, fcall, built>>

\* process_metadata from the result of scrape_book_metadata on
MetadataFinish(w) ==
    /\ exec[w].pc = "scrape"
    /\ exec[w].task = "process_metadata"
    /\ LET e == exec[w]
           m == e.msg
           metadata == scrape_book_metadata(e.book.metadata_url)
       IN  IF metadata = None \/ "download_image" \in down
           THEN \* metadata.image or download_image raises
                LET r == except_retry(m)
                IN  /\ queue' = Redeliver(queue, r)
                    /\ done' = done \cup {Attempt(m, m.arg, "error", TRUE, r, 0)}
                    /\ UNCHANGED <<kv, sets>>
           ELSE LET st == db_save(Store, metadata, e.chapter.book_hash)
                IN  /\ kv' = st.kv
                    /\ sets' = st.sets
                    /\ queue' = Send(queue, Msg("process_chapter", m.arg, 0))
                    /\ done' = done \cup {Attempt(m, m.arg, "success", FALSE, None, 1)}
    /\ exec' = [exec EXCEPT ![w] = Idle]
    /\ UNCHANGED <<locks, injected, down, site, fcall, built>>

\* process_chapter's first half with a plausible slip: the status is not saved before
\* the scrape
ChapterReceive_saves_late(w, m) ==
    /\ exec[w] = Idle
    /\ m \in Ready("process_chapter")
    /\ LET chapter_data == GetChapter(m.arg)
       IN  IF chapter_data = None
           THEN /\ queue' = Take(queue, m)
                /\ done' = done \cup {Attempt(m, m.arg, "not_found", FALSE, None, 0)}
                /\ UNCHANGED exec
           ELSE /\ queue' = Take(queue, m)
                /\ exec' = [exec EXCEPT ![w] =
                      [task |-> "process_chapter", pc |-> "scrape", msg |-> m,
                       chapter |-> [chapter_data EXCEPT !.status = "PROCESSING"]]]
                /\ UNCHANGED done
    /\ UNCHANGED <<kv, sets, locks, injected, down, site, fcall, built>>

\* process_chapter up to scrape_chapter_content: status PROCESSING is saved
ChapterReceive(w, m) ==
    /\ exec[w] = Idle
    /\ m \in Ready("process_chapter")
    /\ LET chapter_data == GetChapter(m.arg)
       IN  IF chapter_data = None
           THEN /\ queue' = Take(queue, m)
                /\ done' = done \cup {Attempt(m, m.arg, "not_found", FALSE, None, 0)}
                /\ UNCHANGED <<kv, sets, exec>>
           ELSE LET processing == [chapter_data EXCEPT !.status = "PROCESSING"]
                    st == chapter_save(Store, processing)
                IN  /\ kv' = st.kv
                    /\ sets' = st.sets
                    /\ queue' = Take(queue, m)
                    /\ exec' = [exec EXCEPT ![w] =
                          [task |-> "process_chapter", pc |-> "scrape", msg |-> m,
                           chapter |-> processing]]
                    /\ UNCHANGED done
    /\ UNCHANGED <<locks, injected, down, site, fcall, built>>

\* process_chapter's second half with a plausible slip: with no content the chapter is
\* marked FAILED
ChapterFinish_marks_failed(w) ==
    /\ exec[w].pc = "scrape"
    /\ exec[w].task = "process_chapter"
    /\ LET e == exec[w]
           m == e.msg
           result == scrape_chapter_content(e.chapter.url)
       IN  IF result = None
           THEN LET st == chapter_save(Store, [e.chapter EXCEPT !.status = "FAILED"])
                IN  /\ kv' = st.kv
                    /\ sets' = st.sets
                    /\ done' = done \cup {Attempt(m, m.arg, "no_content", TRUE, None, 0)}
                    /\ UNCHANGED queue
           ELSE LET content == [result EXCEPT !.chapter_hash = m.arg,
                                              !.url = e.chapter.url]
                    st == db_save(Store, content, content.chapter_hash)
                IN  /\ kv' = st.kv
                    /\ sets' = st.sets
                    /\ queue' = Send(queue, Msg("process_tts", m.arg, 0))
                    /\ done' = done \cup {Attempt(m, m.arg, "success", FALSE, None, 1)}
    /\ exec' = [exec EXCEPT ![w] = Idle]
    /\ UNCHANGED <<locks, injected, down, site, fcall, built>>

\* process_chapter's second half with a plausible slip: result.save() is left out, the
\* Speech-Synthesis unit is sent for content that was never stored
ChapterFinish_dispatches_unsaved(w) ==
    /\ exec[w].pc = "scrape"
    /\ exec[w].task = "process_chapter"
    /\ LET e == exec[w]
           m == e.msg
           result == scrape_chapter_content(e.chapter.url)
       IN  IF result = None
           THEN /\ done' = done \cup {Attempt(m, m.arg, "no_content", TRUE, None, 0)}
                /\ UNCHANGED queue
           ELSE /\ queue' = Send(queue, Msg("process_tts", m.arg, 0))
                /\ done' = done \cup {Attempt(m, m.arg, "success", FALSE, None, 1)}
    /\ exec' = [exec EXCEPT ![w] = Idle]
    /\ UNCHANGED <<kv, sets, locks, injected, down, site, fcall, built>>

\* process_chapter from the result of scrape_chapter_content on.  With no result the
\* body of the if is skipped and the handler returns None: nothing is raised.
ChapterFinish(w) ==
    /\ exec[w].pc = "scrape"
    /\ exec[w].task = "process_chapter"
    /\ LET e == exec[w]
           m == e.msg
           result == scrape_chapter_content(e.chapter.url)
       IN  IF result = None
           THEN /\ done' = done \cup {Attempt(m, m.arg, "no_content", TRUE, None, 0)}
                /\ UNCHANGED <<kv, sets, queue>>
           ELSE LET content == [result EXCEPT !.chapter_hash = m.arg,
                                              !.url = e.chapter.url]
                    st == db_save(Store, content, content.chapter_hash)
                IN  /\ kv' = st.kv
                    /\ sets' = st.sets
                    /\ queue' = Send(queue, Msg("process_tts", m.arg, 0))
                    /\ done' = done \cup {Attempt(m, m.arg, "success", FALSE, None, 1)}
    /\ exec' = [exec EXCEPT ![w] = Idle]
    /\ UNCHANGED <<locks, injected, down, site, fcall, built>>

\* process_tts with a plausible slip: the handler saves the chapter it loaded, with a
\* status of its own
TtsRun_saves_chapter(m) ==
    /\ m \in Ready("process_tts")
    /\ IF GetChapter(m.arg) = None \/ db_get(Store, "scrapedchaptercontent", m.arg) = None
       THEN /\ queue' = Take(queue, m)
            /\ done' = done \cup {Attempt(m, m.arg, "not_found", FALSE, None, 0)}
            /\ UNCHANGED <<kv, sets>>
       ELSE IF "generate_tts" \in down
       THEN LET r == except_retry(m)
            IN  /\ queue' = Requeue(queue, m, r)
                /\ done' = done \cup {Attempt(m, m.arg, "error", TRUE, r, 0)}
                /\ UNCHANGED <<kv, sets>>
       ELSE LET st == chapter_save(Store, [GetChapter(m.arg) EXCEPT !.status = "PENDING"])
            IN  /\ kv' = st.kv
                /\ sets' = st.sets
                /\ queue' = Send(Take(queue, m), Msg("process_converter", m.arg, 0))
                /\ done' = done \cup {Attempt(m, m.arg, "success", FALSE, None, 1)}
    /\ UNCHANGED <<locks, exec, injected, down, site, fcall, built>>

\* process_tts
TtsRun(m) ==
    /\ m \in Ready("process_tts")
    /\ IF GetChapter(m.arg) = None \/ db_get(Store, "scrapedchaptercontent", m.arg) = None
       THEN /\ queue' = Take(queue, m)
            /\ done' = done \cup {Attempt(m, m.arg, "not_found", FALSE, None, 0)}
       ELSE IF "generate_tts" \in down
       THEN LET r == except_retry(m)
            IN  /\ queue' = Requeue(queue, m, r)
                /\ done' = done \cup {Attempt(m, m.arg, "error", TRUE, r, 0)}
       ELSE /\ queue' = Send(Take(queue, m), Msg("process_converter", m.arg, 0))
            /\ done' = done \cup {Attempt(m, m.arg, "success", FALSE, None, 1)}
    /\ UNCHANGED <<kv, sets, locks, exec, injected, down, site, fcall, built>>

\* process_converter with a plausible slip: Completion is skipped, the Remote-Sync unit
\* is sent by Media-Mux
ConverterRun_skips_completed(m) ==
    /\ m \in Ready("process_converter")
    /\ LET processing_data == GetChapter(m.arg)
       IN  IF \/ processing_data = None
              \/ db_get(Store, "scrapedchaptercontent", m.arg) = None
              \/ db_get(Store, "scrapedmetadata", processing_data.book_hash) = None
           THEN /\ queue' = Take(queue, m)
                /\ done' = done \cup {Attempt(m, m.arg, "not_found", FALSE, None, 0)}
           ELSE IF "ffmpeg" \in down
           THEN LET r == except_retry(m)
                IN  /\ queue' = Requeue(queue, m, r)
                    /\ done' = done \cup {Attempt(m, m.arg, "error", TRUE, r, 0)}
           ELSE /\ queue' = Send(Take(queue, m), Msg("process_sync", m.arg, SYNC_DELAY))
                /\ done' = done \cup {Attempt(m, m.arg, "success", FALSE, None, 1)}
    /\ UNCHANGED <<kv, sets, locks, exec, injected, down, site, fcall, built>>

\* process_converter
ConverterRun(m) ==
    /\ m \in Ready("process_converter")
    /\ LET processing_data == GetChapter(m.arg)
       IN  IF \/ processing_data = None
              \/ db_get(Store, "scrapedchaptercontent", m.arg) = None
              \/ db_get(Store, "scrapedmetadata", processing_data.book_hash) = None
           THEN /\ queue' = Take(queue, m)
                /\ done' = done \cup {Attempt(m, m.arg, "not_found", FALSE, None, 0)}
           ELSE IF "ffmpeg" \in down
           THEN LET r == except_retry(m)
                IN  /\ queue' = Requeue(queue, m, r)
                    /\ done' = done \cup {Attempt(m, m.arg, "error", TRUE, r, 0)}
           ELSE /\ queue' = Send(Take(queue, m), Msg("process_completed", m.arg, 0))
                /\ done' = done \cup {Attempt(m, m.arg, "success", FALSE, None, 1)}
    /\ UNCHANGED <<kv, sets, locks, exec, injected, down, site, fcall, built>>

\* process_completed with a plausible slip: the Remote-Sync unit is sent at once, with
\* no countdown
CompletedRun_immediate(m) ==
    /\ m \in Ready("process_completed")
    /\ LET chapter_data == GetChapter(m.arg)
       IN  IF chapter_data = None
           THEN LET r == except_retry(m)
                IN  /\ queue' = Requeue(queue, m, r)
                    /\ done' = done \cup {Attempt(m, m.arg, "not_found", FALSE, r, 0)}
                    /\ UNCHANGED <<kv, sets>>
           ELSE LET st == chapter_save(Store, [chapter_data EXCEPT !.status = "COMPLETED"])
                IN  /\ kv' = st.kv
                    /\ sets' = st.sets
                    /\ queue' = Send(Take(queue, m), Msg("process_sync", m.arg, 0))
                    /\ done' = done \cup {Attempt(m, m.arg, "success", FALSE, None, 1)}
    /\ UNCHANGED <<locks, exec, injected, down, site, fcall, built>>

\* process_completed: an absent chapter raises ValueError inside the try
CompletedRun(m) ==
    /\ m \in Ready("process_completed")
    /\ LET chapter_data == GetChapter(m.arg)
       IN  IF chapter_data = None
           THEN LET r == except_retry(m)
                IN  /\ queue' = Requeue(queue, m, r)
                    /\ done' = done \cup {Attempt(m, m.arg, "not_found", FALSE, r, 0)}
                    /\ UNCHANGED <<kv, sets>>
           ELSE LET st == chapter_save(Store, [chapter_data EXCEPT !.status = "COMPLETED"])
                IN  /\ kv' = st.kv
                    /\ sets' = st.sets
                    /\ queue' = Send(Take(queue, m), Msg("process_sync", m.arg, SYNC_DELAY))
                    /\ done' = done \cup {Attempt(m, m.arg, "success", FALSE, None, 1)}
    /\ UNCHANGED <<locks, exec, injected, down, site, fcall, built>>

---------------------------------------------------------------------------
(* workers/sync/tasks.py: Remote-Sync.  One execution is SyncReceive (load *)
(* the chapter), SyncLock (SET NX EX), SyncSadd, the transfer, which       *)
(* lasts until SyncTransferEnd, and on a failure SyncExcept.               *)

RSYNC_PENDING_KEY == "rsync_pending_books"
lock_key(chapter) == "rsync_lock:" \o chapter.book_name

\* the other executions that are at their transfer for the same book name
SyncPeers(w, book_name) ==
    {v \in Workers \ {w} : /\ exec[v].pc = "transfer"
                           /\ exec[v].chapter.book_name = book_name}

SyncAttempt(e, outcome, failed, r) == Attempt(e.msg, e.msg.arg, outcome, failed, r, 0)

\* chapter = ChapterProcessingData.get(chapter_hash); if chapter is None: return False
SyncReceive(w, m) ==
    /\ exec[w] = Idle
    /\ m \in Ready("process_sync")
    /\ queue' = Take(queue, m)
    /\ LET chapter == GetChapter(m.arg)
       IN  IF chapter = None
           THEN /\ done' = done \cup {Attempt(m, m.arg, "not_found", FALSE, None, 0)}
                /\ UNCHANGED exec
           ELSE /\ exec' = [exec EXCEPT ![w] =
                      [task |-> "process_sync", pc |-> "lock", msg |-> m,
                       chapter |-> chapter, elapsed |-> 0, exc |-> ""]]
                /\ UNCHANGED done
    /\ UNCHANGED <<kv, sets, locks, injected, down, site, fcall, built>>

\* SET key value EX ttl with a plausible slip: NX is left out, the key is overwritten
set_ex(ls, key, value, ttl) ==
    [k \in DOMAIN ls \cup {key} |->
        IF k = key THEN [value |-> value, ttl |-> Ticks(ttl)] ELSE ls[k]]

\* redis SET key value EX ttl NX: the keys after it, unchanged when the key exists
set_nx_ex(ls, key, value, ttl) ==
    IF key \in DOMAIN ls THEN ls
    ELSE [k \in DOMAIN ls \cup {key} |->
             IF k = key THEN [value |-> value, ttl |-> Ticks(ttl)] ELSE ls[k]]

\* redis DELETE key
delete(ls, key) == [k \in DOMAIN ls \ {key} |-> ls[k]]

\* the lock step with a plausible slip: the return of the loser is inside the inner
\* try, so the finally block deletes the lock key of the winner
SyncLock_finally_on_skip(w) ==
    /\ exec[w].pc = "lock"
    /\ LET e == exec[w]
           after == set_nx_ex(locks, lock_key(e.chapter), "1", LOCK_TTL)
           lock_acquired == after # locks
       IN  IF ~lock_acquired
           THEN /\ done' = done \cup {SyncAttempt(e, "skipped", FALSE, None)}
                /\ exec' = [exec EXCEPT ![w] = Idle]
                /\ locks' = delete(locks, lock_key(e.chapter))
           ELSE /\ locks' = after
                /\ exec' = [exec EXCEPT ![w].pc = "sadd"]
                /\ UNCHANGED done
    /\ UNCHANGED <<kv, sets, queue, injected, down, site, fcall, built>>

\* lock_acquired = db.redis_client.set(lock_key, "1", ex=600, nx=True)
SyncLock(w) ==
    /\ exec[w].pc = "lock"
    /\ LET e == exec[w]
           after == set_nx_ex(locks, lock_key(e.chapter), "1", LOCK_TTL)
           lock_acquired == after # locks
       IN  IF ~lock_acquired
           THEN \* return {"status": "skipped", "reason": "duplicate_request", ...}
                /\ done' = done \cup {SyncAttempt(e, "skipped", FALSE, None)}
                /\ exec' = [exec EXCEPT ![w] = Idle]
                /\ UNCHANGED locks
           ELSE /\ locks' = after
                /\ exec' = [exec EXCEPT ![w].pc = "sadd"]
                /\ UNCHANGED done
    /\ UNCHANGED <<kv, sets, queue, injected, down, site, fcall, built>>

\* db.redis_client.sadd(RSYNC_PENDING_KEY, chapter.book_name); subprocess.run starts
SyncSadd(w) ==
    /\ exec[w].pc = "sadd"
    /\ sets' = sadd(sets, RSYNC_PENDING_KEY, exec[w].chapter.book_name)
    /\ exec' = [exec EXCEPT ![w].pc = "transfer"]
    /\ UNCHANGED <<kv, locks, queue, done, injected, down, site, fcall, built>>

\* the finally block with a plausible slip: the lock is released only after a success
release_on_success(ls, key, outcome) == IF outcome = "success" THEN delete(ls, key) ELSE ls

\* finally: db.redis_client.delete(lock_key), whatever the outcome of the transfer
release(ls, key, outcome) == delete(ls, key)

\* how subprocess.run ends: TimeoutExpired after the timeout when rsync does not end,
\* otherwise at any time a non-zero or zero return code
TransferOutcome(e) ==
    IF "rsync_hang" \in down THEN "timeout"
    ELSE IF "rsync_exit" \in down THEN "error"
    ELSE "success"

\* subprocess.run returns or raises; the success branch or the raise; the finally block
SyncTransferEnd(w) ==
    /\ exec[w].pc = "transfer"
    /\ LET e == exec[w]
           outcome == TransferOutcome(e)
       IN  /\ outcome = "timeout" => e.elapsed = Ticks(TRANSFER_TIMEOUT)
           /\ locks' = release(locks, lock_key(e.chapter), outcome)
           /\ IF outcome = "success"
              THEN /\ sets' = srem(sets, RSYNC_PENDING_KEY, e.chapter.book_name)
                   /\ done' = done \cup {SyncAttempt(e, "success", FALSE, None)}
                   /\ exec' = [exec EXCEPT ![w] = Idle]
              ELSE /\ exec' = [exec EXCEPT ![w].pc = "except", ![w].exc = outcome]
                   /\ UNCHANGED <<sets, done>>
    /\ UNCHANGED <<kv, queue, injected, down, site, fcall, built>>

\* the except blocks with a plausible slip: the marker is removed on success only
SyncExcept_keeps_pending(w) ==
    /\ exec[w].pc = "except"
    /\ LET e == exec[w]
           m == e.msg
           r == IF m.retries >= SYNC_MAX_RETRIES THEN None
                ELSE IF e.exc = "timeout" THEN self_retry(m, SYNC_RETRY_BASE)
                ELSE self_retry(m, SYNC_RETRY_BASE * Pow2(m.retries))
       IN  /\ queue' = Redeliver(queue, r)
           /\ done' = done \cup {SyncAttempt(e, e.exc, TRUE, r)}
           /\ exec' = [exec EXCEPT ![w] = Idle]
    /\ UNCHANGED <<kv, sets, locks, injected, down, site, fcall, built>>

\* except subprocess.TimeoutExpired / except Exception: srem, then return or retry
SyncExcept(w) ==
    /\ exec[w].pc = "except"
    /\ LET e == exec[w]
           m == e.msg
           r == IF m.retries >= SYNC_MAX_RETRIES THEN None
                ELSE IF e.exc = "timeout" THEN self_retry(m, SYNC_RETRY_BASE)
                ELSE self_retry(m, SYNC_RETRY_BASE * Pow2(m.retries))
       IN  /\ sets' = srem(sets, RSYNC_PENDING_KEY, e.chapter.book_name)
           /\ queue' = Redeliver(queue, r)
           /\ done' = done \cup {SyncAttempt(e, e.exc, TRUE, r)}
           /\ exec' = [exec EXCEPT ![w] = Idle]
    /\ UNCHANGED <<kv, locks, injected, down, site, fcall, built>>

---------------------------------------------------------------------------
(* Time and the environment *)

TickMsg(m) == [m EXCEPT !.wait = IF @ > 0 THEN @ - 1 ELSE 0]
TickQueue(q) ==
    [t \in {TickMsg(m) : m \in BagToSet(q)} |->
        IF t.wait = 0
        THEN CopiesIn(t, q) + CopiesIn([t EXCEPT !.wait = 1], q)
        ELSE CopiesIn([t EXCEPT !.wait = @ + 1], q)]

Transferring == {w \in Workers : exec[w].pc = "transfer"}

\* TimeUnit seconds pass: countdowns and key TTLs run down, transfers go on.  A
\* transfer never lasts beyond its timeout, and a key whose TTL ends is removed.
Tick ==
    /\ \/ \E m \in BagToSet(queue) : m.wait > 0
       \/ DOMAIN locks # {}
       \/ Transferring # {}
    /\ \A w \in Transferring : exec[w].elapsed < Ticks(TRANSFER_TIMEOUT)
    /\ queue' = TickQueue(queue)
    /\ locks' = [k \in {x \in DOMAIN locks : locks[x].ttl > 1} |->
                    [locks[k] EXCEPT !.ttl = @ - 1]]
    /\ exec' = [w \in Workers |->
                  IF w \in Transferring THEN [exec[w] EXCEPT !.elapsed = @ + 1] ELSE exec[w]]
    /\ UNCHANGED <<kv, sets, done, injected, down, site, fcall, built>>

\* a failing collaborator works again
Repair(c) ==
    /\ c \in down
    /\ down' = down \ {c}
    /\ UNCHANGED <<kv, sets, locks, queue, exec, done, injected, site, fcall, built>>

---------------------------------------------------------------------------
(* Initial values shared by the specifications *)

NoKeys == <<>>
Seqs(S, n) == UNION {[1..k -> S] : k \in 0..n}
MarkerUrls == {"a", "b", "c", "x"}
LinkA == Link("A", "a")
LinkB == Link("B", "b")
LinkC == Link("C", "c")

InitIdle ==
    /\ kv = NoKeys
    /\ sets = NoKeys
    /\ locks = NoKeys
    /\ queue = EmptyBag
    /\ exec = [w \in Workers |-> Idle]
    /\ done = {}
    /\ injected = 0
    /\ down = {}
    /\ site = <<>>
    /\ fcall = [op |-> "none"]
    /\ built = {}

---------------------------------------------------------------------------
(* FilterSpec: filter_chapters applied to every chapter list of up to      *)
(* MaxLen links (two of them share a URL) and every pair of markers.       *)

FilterLinks == {LinkA, LinkB, LinkC, Link("D", "a")}

FilterInit ==
    /\ kv = NoKeys /\ sets = NoKeys /\ locks = NoKeys /\ queue = EmptyBag
    /\ exec = [w \in Workers |-> Idle] /\ done = {} /\ injected = 0
    /\ down = {} /\ site = <<>> /\ built = {}
    /\ \E chapters \in Seqs(FilterLinks, MaxLen), s \in MarkerUrls, e \in MarkerUrls :
          fcall = [op |-> "call", chapters |-> chapters, start_from |-> s, end_at |-> e,
                   result |-> None]

FilterApply ==
    /\ fcall.op = "call"
    /\ fcall' = [fcall EXCEPT !.op = "returned",
                    !.result = filter_chapters(fcall.chapters, fcall.start_from, fcall.end_at)]
    /\ UNCHANGED <<kv, sets, locks, queue, exec, done, injected, down, site, built>>

FilterSpec == FilterInit /\ [][FilterApply]_vars

\* the 0-based positions of a URL in a chapter list, and the first of them
Positions(chapters, url) == {i \in 0..(Len(chapters) - 1) : chapters[i + 1].url = url}
First(S) == CHOOSE i \in S : \A j \in S : i <= j

(* C8: filter_chapters returns the inclusive sub-list from the start marker's
   position to the end marker's position, each element paired with its index in
   the full list, when both URLs are present and the start position is at most
   the end position; it returns None when the start URL is absent, the end URL is
   absent, or the end position precedes the start position.  The position of a
   URL that occurs more than once is its first occurrence. *)
C8_RangeValidity ==
    fcall.op = "returned" =>
        LET ps == Positions(fcall.chapters, fcall.start_from)
            pe == Positions(fcall.chapters, fcall.end_at)
        IN  IF ps # {} /\ pe # {} /\ First(ps) <= First(pe)
            THEN /\ fcall.result # None
                 /\ Len(fcall.result.value) = First(pe) - First(ps) + 1
                 /\ \A k \in 1..Len(fcall.result.value) :
                       fcall.result.value[k] = <<First(ps) + k - 1,
                                                 fcall.chapters[First(ps) + k]>>
            ELSE fcall.result = None

\* the example of the specification: [A,B,C], start b, end c -> [(1,B),(2,C)]
C8_Witness ==
    /\ fcall.op = "returned"
    /\ fcall.chapters = <<LinkA, LinkB, LinkC>>
    /\ fcall.start_from = "b" /\ fcall.end_at = "c"
    /\ fcall.result = Some(<< <<1, LinkB>>, <<2, LinkC>> >>)

---------------------------------------------------------------------------
(* HashSpec: entities are constructed from every combination of field      *)
(* values, and reloaded through the store's serialization.                 *)

HashTitles == {"A", "A:b"}
HashUrls == {"a", "b:a"}

BuildChapter ==
    /\ Cardinality(built) < MaxBuilt
    /\ \E title \in HashTitles, url \in HashUrls, book \in {"T", "U"},
          status \in {"PENDING", "completed"}, created_at \in {"t1", "t2"},
          chapter_number \in {0, 1} :
          built' = built \cup {ChapterProcessingData(md5(book), status, created_at, title,
                                                     url, book, "", chapter_number)}
    /\ UNCHANGED <<kv, sets, locks, queue, exec, done, injected, down, site, fcall>>

BuildBook ==
    /\ Cardinality(built) < MaxBuilt
    /\ \E title \in {"T", "U"}, chapters \in {<<>>, <<LinkA>>}, metadata_url \in {"", "g"} :
          built' = built \cup {ScrapedBook(title, chapters, "", metadata_url)}
    /\ UNCHANGED <<kv, sets, locks, queue, exec, done, injected, down, site, fcall>>

\* db.save then db.get of a built entity: the entity the store gives back
Reload ==
    /\ \E e \in built :
          LET id == IF e.type = "scrapedbook" THEN e.book_hash ELSE e.chapter_hash
              st == db_save(Store, e, id)
          IN  /\ kv' = st.kv
              /\ sets' = st.sets
              /\ built' = built \cup {db_get(st, e.type, id)}
    /\ UNCHANGED <<locks, queue, exec, done, injected, down, site, fcall>>

HashNext == BuildChapter \/ BuildBook \/ Reload
HashSpec == InitIdle /\ [][HashNext]_vars

(* C9: the chapter fingerprint is a function of (title, source URL) only and the
   book fingerprint a function of the title only: two Chapter entities with the
   same title and URL have the same fingerprint whatever their book, sequence
   number, creation timestamp or status, and two Book entities with the same
   title have the same fingerprint. *)
C9_FingerprintFunction ==
    \A e1 \in built, e2 \in built :
        /\ (e1.type = "chapterprocessingdata" /\ e2.type = "chapterprocessingdata"
              /\ e1.title = e2.title /\ e1.url = e2.url)
           => e1.chapter_hash = e2.chapter_hash
        /\ (e1.type = "scrapedbook" /\ e2.type = "scrapedbook" /\ e1.title = e2.title)
           => e1.book_hash = e2.book_hash

C9_Witness ==
    \E e1 \in built, e2 \in built :
        /\ e1.type = "chapterprocessingdata" /\ e2.type = "chapterprocessingdata"
        /\ e1.title = e2.title /\ e1.url = e2.url
        /\ e1.book_hash # e2.book_hash /\ e1.chapter_number # e2.chapter_number
        /\ e1.status # e2.status /\ e1.created_at # e2.created_at
        /\ e1.chapter_hash = e2.chapter_hash
        /\ _generate_key(e1.type, e1.chapter_hash) \in DOMAIN kv

---------------------------------------------------------------------------
(* Spec: the pipeline from injection to Completion.  The site lists one    *)
(* chapter, up to MaxRuns requests with any markers are injected, every    *)
(* collaborator works, and the handlers of the workers interleave, so a    *)
(* later discovery run meets the chapter in every stage of its processing. *)

Init ==
    /\ kv = NoKeys /\ sets = NoKeys /\ locks = NoKeys /\ queue = EmptyBag
    /\ exec = [w \in Workers |-> Idle] /\ done = {} /\ injected = 0
    /\ down = {} /\ fcall = [op |-> "none"] /\ built = {}
    /\ site = <<LinkA>>

Discovery ==
    \/ \E w \in Workers, m \in BagToSet(queue) : BookReceive(w, m)
    \/ \E w \in Workers : BookCheck(w)
    \/ \E w \in Workers : BookSave(w)
    \/ \E w \in Workers : BookReturn(w)

Stages ==
    \/ \E w \in Workers, m \in BagToSet(queue) : MetadataReceive(w, m)
    \/ \E w \in Workers : MetadataFinish(w)
    \/ \E w \in Workers, m \in BagToSet(queue) : ChapterReceive(w, m)
    \/ \E w \in Workers : ChapterFinish(w)
    \/ \E m \in BagToSet(queue) : TtsRun(m)
    \/ \E m \in BagToSet(queue) : ConverterRun(m)
    \/ \E m \in BagToSet(queue) : CompletedRun(m)

Next ==
    \/ \E s \in {"a", "x"}, e \in {"a", "x"} : Inject(s, e)
    \/ Discovery
    \/ Stages

Spec == Init /\ [][Next]_vars

\* the discovery executions, and the chapter an execution is at
Discovering == {w \in Workers : exec[w].pc \in {"check", "save", "return"}}
CurrentHash(e) == generate_hash(e.filtered[e.i][2])
StoredChapter(hash) == db_get(Store, "chapterprocessingdata", hash)

\* C3: a discovery run that finds the chapter's stored record COMPLETED when it checks
\* skips the chapter: the check step goes on to the next chapter (never to the save
\* and dispatch of this one), sends no unit of work and leaves the store as it is.
C3_SkipCompleted ==
    [][\A w \in Workers :
          (/\ exec[w].pc = "check"
           /\ exec'[w] # exec[w]
           /\ StoredChapter(CurrentHash(exec[w])) # None
           /\ StoredChapter(CurrentHash(exec[w])).status = "COMPLETED")
          => /\ exec'[w].pc \in {"check", "return"}
             /\ exec'[w].pc = "check" => exec'[w].i = exec[w].i + 1
             /\ exec'[w].sent = exec[w].sent
             /\ queue' = queue
             /\ kv' = kv
             /\ sets' = sets]_vars

\* a later run has skipped the chapter, whose record is still COMPLETED
C3_Witness ==
    \E w \in Discovering :
        /\ exec[w].skipped # {}
        /\ \A h \in exec[w].skipped : StoredChapter(h).status = "COMPLETED"
        /\ exec[w].sent = <<>>

\* C4: the step that persists a chapter sends exactly one unit of work for it, to
\* Chapter-Scrape when the book's Metadata record exists at that moment and to
\* Metadata-Enrichment otherwise.
C4_DispatchByMetadata ==
    [][\A w \in Workers :
          (exec[w].pc = "save" /\ exec'[w] # exec[w])
          => LET h == exec[w].chapter.chapter_hash
                 to == IF _generate_key("scrapedmetadata", exec[w].book.book_hash)
                              \in DOMAIN kv
                       THEN "process_chapter" ELSE "process_metadata"
             IN  /\ _generate_key("chapterprocessingdata", h) \in DOMAIN kv'
                 /\ \E m \in BagToSet(queue') :
                       /\ m.task = to /\ m.arg = h /\ m.retries = 0 /\ m.wait = 0
                       /\ queue' = queue (+) SetToBag({m})
                       /\ exec'[w].sent = Append(exec[w].sent, m)]_vars

\* both routes have been taken: a unit went through Metadata-Enrichment, and a run has
\* sent one straight to Chapter-Scrape
C4_Witness ==
    /\ \E d \in done : d.task = "process_metadata" /\ d.outcome = "success"
    /\ \E w \in Discovering :
          \E k \in 1..Len(exec[w].sent) : exec[w].sent[k].task = "process_chapter"

---------------------------------------------------------------------------
(* DiscoverySpec: one Book-Discovery run on a store with no Chapter and no *)
(* Book record (a Metadata record may exist), for every chapter list of up *)
(* to MaxChapters links, repeated links included, and every pair of        *)
(* markers.  No other handler runs.                                        *)

EmptyStore == [kv |-> NoKeys, sets |-> NoKeys]
MetadataOnly ==
    db_save(EmptyStore, ScrapedMetadata(SiteTitle, "img"),
            book_generate_hash([title |-> SiteTitle]))

DiscoveryInit ==
    /\ down = {}
    /\ \E st \in {EmptyStore, MetadataOnly} : kv = st.kv /\ sets = st.sets
    /\ site \in Seqs({LinkA, LinkB, LinkC}, MaxChapters)
    /\ \E s \in MarkerUrls, e \in MarkerUrls : queue = SetToBag({BookMsg(InputData(s, e))})
    /\ locks = NoKeys /\ exec = [w \in Workers |-> Idle] /\ done = {} /\ injected = 1
    /\ fcall = [op |-> "none"] /\ built = {}

DiscoverySpec == DiscoveryInit /\ [][Discovery]_vars

\* the links of the range of a run, and whether their fingerprints differ pairwise
RunLinks(e) == [k \in 1..Len(e.filtered) |-> e.filtered[k][2]]
DistinctLinks(e) ==
    \A j, k \in 1..Len(e.filtered) :
        j # k => generate_hash(e.filtered[j][2]) # generate_hash(e.filtered[k][2])

\* what the scenario promises of a run over n chapters when it returns
RunOutcome(e) ==
    LET n == Len(e.filtered)
        chapters == Stored(Store, "chapterprocessingdata")
        books == Stored(Store, "scrapedbook")
    IN  /\ Cardinality(chapters) = n
        /\ \A c \in chapters : c.status = "PENDING"
        /\ {c.chapter_hash : c \in chapters} = {generate_hash(RunLinks(e)[k]) : k \in 1..n}
        /\ Cardinality(books) = 1
        /\ \A b \in books : b.chapters = [k \in 1..n |-> asdict(RunLinks(e)[k])]
        /\ Len(e.sent) = n
        /\ \A k \in 1..n :
              /\ e.sent[k].task = IF e.had_metadata THEN "process_chapter"
                                  ELSE "process_metadata"
              /\ e.sent[k].arg = generate_hash(RunLinks(e)[k])

---------------------------------------------------------------------------
(* RetrySpec: one chapter goes through the whole pipeline while at most    *)
(* one collaborator fails, on every call until it is repaired (if ever).   *)

Sync ==
    \/ \E w \in Workers, m \in BagToSet(queue) : SyncReceive(w, m)
    \/ \E w \in Workers : SyncLock(w)
    \/ \E w \in Workers : SyncSadd(w)
    \/ \E w \in Workers : SyncTransferEnd(w)
    \/ \E w \in Workers : SyncExcept(w)

RetryInit ==
    /\ kv = NoKeys /\ sets = NoKeys /\ locks = NoKeys
    /\ queue = SetToBag({BookMsg(InputData("a", "a"))})
    /\ exec = [w \in Workers |-> Idle] /\ done = {} /\ injected = 1
    /\ down \in {{}} \cup {{c} : c \in Collaborators}
    /\ site = <<LinkA>> /\ fcall = [op |-> "none"] /\ built = {}

RetryNext ==
    \/ Discovery
    \/ Stages
    \/ Sync
    \/ Tick
    \/ \E c \in Collaborators : Repair(c)

RetrySpec == RetryInit /\ [][RetryNext]_vars

\* the retry ceiling of a stage
max_retries(task) == retry_kwargs(task).max_retries

\* C5 as stated: an attempt whose work failed is redelivered exactly when fewer than
\* max_retries redeliveries have been made (so a handler that fails every time runs
\* max_retries + 1 times: 6 for a processing stage, 4 for Remote-Sync), and a failed
\* attempt dispatches nothing downstream.
C5_RetryCeiling ==
    \A d \in done :
        d.failed => /\ d.redelivered <=> d.retries < max_retries(d.task)
                    /\ d.dispatched = 0

NonDecreasing(delays) ==
    \A k \in 1..(Len(delays) - 1) : delays[k] <= delays[k + 1]

\* C6 as stated: the redelivery delays of a unit of work that keeps failing never
\* decrease from one attempt to the next, and none exceeds the maximum delay, 600 s.
C6_DelaysCapped ==
    \A m \in BagToSet(queue) :
        /\ NonDecreasing(m.delays)
        /\ \A k \in 1..Len(m.delays) : m.delays[k] <= RETRY_BACKOFF_MAX

---------------------------------------------------------------------------
(* SyncSpec: two chapters of one book have been completed and their        *)
(* Remote-Sync units wait for their countdown; rsync works, exits non-zero *)
(* or does not end.                                                        *)

CompletedChapter(link, chapter_number) ==
    [_create_chapter_processing_data(book_generate_hash([title |-> SiteTitle]), ShortName,
                                     chapter_number, link)
        EXCEPT !.status = "COMPLETED"]

SyncStore ==
    chapter_save(
        chapter_save(
            db_save(EmptyStore, ScrapedBook(SiteTitle, <<LinkA, LinkB>>, "", GoodReadsUrl),
                    book_generate_hash([title |-> SiteTitle])),
            CompletedChapter(LinkA, 0)),
        CompletedChapter(LinkB, 1))

SyncInit ==
    /\ down \in SUBSET {"rsync_exit", "rsync_hang"}
    /\ kv = SyncStore.kv /\ sets = SyncStore.sets /\ locks = NoKeys
    /\ queue = SetToBag({Msg("process_sync", generate_hash(LinkA), SYNC_DELAY),
                         Msg("process_sync", generate_hash(LinkB), SYNC_DELAY)})
    /\ exec = [w \in Workers |-> Idle] /\ done = {} /\ injected = 1
    /\ site = <<LinkA, LinkB>> /\ fcall = [op |-> "none"] /\ built = {}

SyncNext ==
    \/ Sync
    \/ Tick

SyncSpec == SyncInit /\ [][SyncNext]_vars

SyncAttempts == {d \in done : d.task = "process_sync"}

\* C1 as stated: an execution that tries the lock while another execution for the same
\* book name is executing its transfer returns "skipped" and goes on to no transfer, so
\* exactly one of the two executes the transfer.
C1_OneTransfers ==
    [][\A w \in Workers :
          (/\ exec[w].pc = "lock"
           /\ exec'[w] # exec[w]
           /\ SyncPeers(w, exec[w].chapter.book_name) # {})
          => /\ exec'[w] = Idle
             /\ \E d \in done' \ done : d.outcome = "skipped" /\ d.key = exec[w].msg.arg]_vars

\* C2 as stated: no two transfers for one book name are executing at the same time.
C2_OneTransferPerBook ==
    \A w, v \in Workers :
        (w # v /\ exec[w].pc = "transfer" /\ exec[v].pc = "transfer")
        => exec[w].chapter.book_name # exec[v].chapter.book_name

C11_SkipIsCleanNoOp ==
    [][\A w \in Workers :
          (/\ exec[w].pc = "lock"
           /\ exec'[w] # exec[w]
           /\ lock_key(exec[w].chapter) \in DOMAIN locks)
          => /\ exec'[w] = Idle
             /\ queue' = queue
             /\ locks' = locks
             /\ sets' = sets
             /\ kv' = kv
             /\ done' = done \cup {[task |-> "process_sync", key |-> exec[w].msg.arg,
                                    retries |-> exec[w].msg.retries, outcome |-> "skipped",
                                    failed |-> FALSE, redelivered |-> FALSE,
                                    dispatched |-> 0]}]_vars

\* an execution has been skipped while the lock is still held, and no unit for its
\* chapter is queued again
C11_Witness ==
    \E d \in SyncAttempts :
        /\ d.outcome = "skipped"
        /\ DOMAIN locks # {}
        /\ \A m \in BagToSet(queue) : m.arg # d.key

---------------------------------------------------------------------------
(* LostSpec: RetrySpec in which stored entities can also be deleted (the   *)
(* delete methods of the models), so that a handler can find the chapter,  *)
(* its scraped content, the book or its metadata absent.                   *)

ModelTypes == {"chapterprocessingdata", "scrapedbook", "scrapedchaptercontent",
               "scrapedmetadata"}

\* <Model>.delete(): db.delete(cls, identifier)
Delete(model_type, identifier) ==
    /\ db_exists(Store, model_type, identifier)
    /\ kv' = db_delete(Store, model_type, identifier).kv
    /\ sets' = db_delete(Store, model_type, identifier).sets
    /\ UNCHANGED <<locks, queue, exec, done, injected, down, site, fcall, built>>

LostNext ==
    \/ RetryNext
    \/ \E t \in ModelTypes : \E id \in smembers(sets, _generate_list_key(t)) : Delete(t, id)

LostSpec == RetryInit /\ [][LostNext]_vars

\* the stage handlers whose unit of work names a chapter
StageTasks == {"process_metadata", "process_chapter", "process_tts", "process_converter",
               "process_completed", "process_sync"}

\* C12 as stated: in every stage handler an attempt that finds the chapter of its unit
\* absent from the store is the only attempt: it is a first delivery, it is not
\* redelivered, and it sends nothing downstream.
C12_AbsentChapterDropped ==
    \A d \in done :
        (d.task \in StageTasks /\ d.outcome = "not_found")
        => ~d.redelivered /\ d.dispatched = 0

\* C13 as stated: a Chapter-Scrape attempt for which the scraping collaborator returns
\* no content is a retryable failure: below the retry ceiling the unit is redelivered,
\* and no Speech-Synthesis unit is sent for the attempt.
C13_NoContentRetried ==
    \A d \in done :
        (d.task = "process_chapter" /\ d.outcome = "no_content")
        => /\ d.retries < MAX_RETRIES => d.redelivered
           /\ d.dispatched = 0

\* C14 as stated: a Media-Mux attempt that finds the chapter, its scraped content or the
\* book's metadata absent is a retryable failure: below the retry ceiling the unit is
\* redelivered rather than dropped, and no Completion unit is sent.
C14_MuxAbsenceRetried ==
    \A d \in done :
        (d.task = "process_converter" /\ d.outcome = "not_found")
        => /\ d.retries < MAX_RETRIES => d.redelivered
           /\ d.dispatched = 0

\* the markers of a request select no range of the chapter list
InvalidRange(chapters, start_from, end_at) ==
    \/ Positions(chapters, start_from) = {}
    \/ Positions(chapters, end_at) = {}
    \/ First(Positions(chapters, end_at)) < First(Positions(chapters, start_from))

C16_NeverFailed ==
    \A c \in Stored(Store, "chapterprocessingdata") :
        c.status \in {"PENDING", "PROCESSING", "COMPLETED"}

\* a stage has failed for the last time, the unit is dropped, and the chapter is left
\* PROCESSING
C16_Witness ==
    /\ \E d \in done : /\ d.failed /\ ~d.redelivered
                       /\ d.task \in {"process_tts", "process_converter"}
                       /\ d.retries = MAX_RETRIES
                       /\ StoredChapter(d.key) # None
                       /\ StoredChapter(d.key).status = "PROCESSING"
    /\ queue = EmptyBag

\* the Metadata-Enrichment executions that found no Metadata record for the book and
\* are at the call of the metadata-scraping collaborator, after which they write it
Enriching(book_hash) ==
    {w \in Workers : /\ exec[w].pc = "scrape"
                     /\ exec[w].task = "process_metadata"
                     /\ exec[w].chapter.book_hash = book_hash}

\* C17 as stated: for each book the metadata-scraping collaborator is invoked and the
\* Metadata record written at most once: the record written so far and the executions
\* that are about to scrape and write it are together at most one.
C17_MetadataOnce ==
    \A b \in {book_generate_hash([title |-> SiteTitle])} :
        Cardinality(Enriching(b))
            + (IF db_exists(Store, "scrapedmetadata", b) THEN 1 ELSE 0) <= 1

\* the stages that write the Chapter record: Chapter-Scrape (PROCESSING) and
\* Completion (COMPLETED)
MutatingTasks == {"process_chapter", "process_completed"}

RECURSIVE SumOver(_, _)
SumOver(S, q) ==
    IF S = {} THEN 0
    ELSE LET m == CHOOSE x \in S : TRUE
         IN  CopiesIn(m, q) + SumOver(S \ {m}, q)

\* the units of work in flight, queued or executing, that write the chapter's record
InFlight(hash) ==
    SumOver({m \in BagToSet(queue) : m.task \in MutatingTasks /\ m.arg = hash}, queue)
        + Cardinality({w \in Workers : /\ exec[w].pc = "scrape"
                                       /\ exec[w].task = "process_chapter"
                                       /\ exec[w].msg.arg = hash})

\* C18 as stated: at any time at most one unit of work that mutates a given Chapter
\* record is in flight for that chapter fingerprint, whatever discovery runs and stage
\* executions have happened.
C18_OneMutatorInFlight ==
    \A k \in 1..Len(site) : InFlight(generate_hash(site[k])) <= 1

\* the Completion attempts that succeed in a step
Completing == {d \in done' \ done : d.task = "process_completed" /\ d.outcome = "success"}

\* C19: the step in which Completion succeeds leaves the chapter stored as COMPLETED and
\* sends one Remote-Sync unit whose countdown is the delay, 300 s (at least one time
\* unit); and a Remote-Sync execution begins only with a unit whose countdown has run
\* out, on a chapter it reads as COMPLETED.
C19_SyncAfterCompletedAndDelay ==
    [][/\ \A d \in Completing :
             /\ kv'[_generate_key("chapterprocessingdata", d.key)].status = "completed"
             /\ Ticks(SYNC_DELAY) >= 1
             /\ \E m \in BagToSet(queue') :
                   /\ m.task = "process_sync" /\ m.arg = d.key /\ m.retries = 0
                   /\ m.wait = Ticks(SYNC_DELAY)
                   /\ CopiesIn(m, queue') = CopiesIn(m, queue) + 1
       /\ \A w \in Workers :
             (exec[w] = Idle /\ exec'[w].pc = "lock")
             => /\ exec'[w].msg.wait = 0
                /\ CopiesIn(exec'[w].msg, queue) = CopiesIn(exec'[w].msg, queue') + 1
                /\ kv[_generate_key("chapterprocessingdata", exec'[w].msg.arg)].status
                      = "completed"]_vars

\* Completion has succeeded, the delay has passed, and the Remote-Sync execution for
\* the chapter has begun
C19_Witness ==
    /\ \E d \in done : d.task = "process_completed" /\ d.outcome = "success"
    /\ \E w \in Workers : /\ exec[w].pc = "lock"
                          /\ exec[w].msg.retries = 0
                          /\ exec[w].chapter.status = "COMPLETED"

---------------------------------------------------------------------------
(* CrashSpec: RetrySpec in which a worker can be lost while it executes a  *)
(* handler.  libs/celery.py sets task_acks_late and                        *)
(* task_reject_on_worker_lost: a message is acknowledged when its handler  *)
(* has returned, and the message of a lost worker is requeued.             *)

MaxCrashes == 2       \* workers lost in CrashSpec, each during a different delivery

task_acks_late == TRUE
task_reject_on_worker_lost == TRUE

\* the broker's queue after the worker that held m unacknowledged is lost, with early
\* acknowledgement: the message was acknowledged at delivery and is gone
on_worker_lost_acked(q, m) == q

\* the broker's queue after the worker that held m unacknowledged is lost
on_worker_lost(q, m) ==
    IF task_acks_late /\ task_reject_on_worker_lost THEN Send(q, m) ELSE q

\* the delivery (task, key, delivery number) an attempt or a message belongs to
SameDelivery(d, task, key, retries) ==
    d.task = task /\ d.key = key /\ d.retries = retries

MsgKey(m) == IF m.task = "process_book" THEN m.input_data.book_url ELSE m.arg

\* the worker is lost in the middle of a handler: what the handler wrote stays, the
\* rest of the handler (its finally block included) does not run
Crashed == {d \in done : d.outcome = "crashed"}

Crash(w) ==
    /\ exec[w] # Idle
    /\ Cardinality(Crashed) < MaxCrashes
    /\ \A d \in Crashed :
          ~SameDelivery(d, exec[w].msg.task, MsgKey(exec[w].msg), exec[w].msg.retries)
    /\ queue' = on_worker_lost(queue, exec[w].msg)
    /\ exec' = [exec EXCEPT ![w] = Idle]
    /\ done' = done \cup {[task |-> exec[w].msg.task, key |-> MsgKey(exec[w].msg),
                           retries |-> exec[w].msg.retries, outcome |-> "crashed",
                           failed |-> FALSE, redelivered |-> FALSE, dispatched |-> 0]}
    /\ UNCHANGED <<kv, sets, locks, injected, down, site, fcall, built>>

\* one chapter is discovered and every collaborator works: workers are what fails
CrashInit ==
    /\ RetryInit
    /\ down = {}

CrashNext ==
    \/ Discovery
    \/ Stages
    \/ \E w \in Workers, m \in BagToSet(queue) : SyncReceive(w, m)
    \/ \E w \in Workers : SyncLock(w)
    \/ \E w \in Workers : SyncSadd(w)
    \/ \E w \in Workers : SyncTransferEnd(w)
    \/ Tick
    \/ \E w \in Workers : Crash(w)

CrashSpec == CrashInit /\ [][CrashNext]_vars

\* C20: a unit of work whose worker was lost during the handler is not lost: the same
\* delivery is queued again, or is being executed again by some worker, or has since
\* been executed to its end.
C20_CrashedUnitRedelivered ==
    \A d \in Crashed :
        \/ \E m \in BagToSet(queue) : SameDelivery(d, m.task, MsgKey(m), m.retries)
        \/ \E w \in Workers :
              /\ exec[w] # Idle
              /\ SameDelivery(d, exec[w].msg.task, MsgKey(exec[w].msg), exec[w].msg.retries)
        \/ \E e \in done : /\ e.outcome # "crashed"
                           /\ SameDelivery(d, e.task, e.key, e.retries)

\* a worker was lost during Remote-Sync's transfer and the same unit is being executed
\* again; and a discovery run that was lost has been executed again to its end
C20_Witness ==
    /\ \E d \in done : /\ d.outcome = "crashed" /\ d.task = "process_sync"
                       /\ \E w \in Workers : /\ exec[w].pc = "transfer"
                                             /\ exec[w].msg.arg = d.key
                                             /\ exec[w].msg.retries = d.retries
    /\ \E d \in done : /\ d.outcome = "crashed" /\ d.task = "process_book"
                       /\ \E e \in done : /\ e.task = "process_book"
                                          /\ e.outcome = "success"
                                          /\ e.retries = d.retries

---------------------------------------------------------------------------
(* CrudSpec: the store's operations called in any order with entities of   *)
(* several types under a few keys, as test_crud_operations.py calls them.  *)
(* fcall holds the last call and what it returned.                         *)

CrudKeys == {"h1", "h2"}

CrudEntities ==
    {BookProcessingData("Test Processing Book", "h1"),
     BookProcessingData("Updated Processing Book", "h1"),
     ScrapedBook("T", <<>>, "", ""),
     ScrapedBook("T", <<LinkA, LinkB>>, "", ""),
     ChapterProcessingData(md5("T"), "PENDING", "now", "A", "a", ShortName, "", 1),
     ChapterProcessingData(md5("T"), "COMPLETED", "now", "A", "a", ShortName, "", 1),
     ScrapedChapterContent("A", "text", "h1", "a")}

CrudTypes == {e.type : e \in CrudEntities}

CrudSave(obj, identifier) ==
    /\ LET st == db_save(Store, obj, identifier)
       IN  /\ kv' = st.kv
           /\ sets' = st.sets
    /\ fcall' = [op |-> "save", model_type |-> obj.type, identifier |-> identifier,
                 obj |-> obj, returned |-> TRUE]
    /\ UNCHANGED <<locks, queue, exec, done, injected, down, site, built>>

CrudUpdate(obj, identifier) ==
    /\ LET st == db_update(Store, obj, identifier)
       IN  /\ kv' = st.kv
           /\ sets' = st.sets
    /\ fcall' = [op |-> "update", model_type |-> obj.type, identifier |-> identifier,
                 obj |-> obj, returned |-> db_update_returns(Store, obj, identifier)]
    /\ UNCHANGED <<locks, queue, exec, done, injected, down, site, built>>

CrudDelete(model_type, identifier) ==
    /\ LET st == db_delete(Store, model_type, identifier)
       IN  /\ kv' = st.kv
           /\ sets' = st.sets
    /\ fcall' = [op |-> "delete", model_type |-> model_type, identifier |-> identifier,
                 obj |-> None,
                 returned |-> db_delete_returns(Store, model_type, identifier)]
    /\ UNCHANGED <<locks, queue, exec, done, injected, down, site, built>>

CrudNext ==
    \/ \E obj \in CrudEntities, id \in CrudKeys : CrudSave(obj, id)
    \/ \E obj \in CrudEntities, id \in CrudKeys : CrudUpdate(obj, id)
    \/ \E t \in CrudTypes, id \in CrudKeys : CrudDelete(t, id)

CrudSpec == InitIdle /\ [][CrudNext]_vars

\* the store after a step
StoreAfter == [kv |-> kv', sets |-> sets']

\* C21 as stated: after save(entity, key) a get of that type and key returns an entity
\* equal to the saved one, exists is true and count is at least 1; after an update of a
\* stored record the get returns the updated entity; a delete of a stored record
\* returns true, and after a delete exists is false and get returns None.
C21_RoundTrip ==
    [][/\ fcall'.op = "save" =>
             /\ db_get(StoreAfter, fcall'.model_type, fcall'.identifier) = fcall'.obj
             /\ db_exists(StoreAfter, fcall'.model_type, fcall'.identifier)
             /\ db_count(StoreAfter, fcall'.model_type) >= 1
       /\ (fcall'.op = "update" /\ db_exists(Store, fcall'.model_type, fcall'.identifier)) =>
             db_get(StoreAfter, fcall'.model_type, fcall'.identifier) = fcall'.obj
       /\ fcall'.op = "delete" =>
             /\ db_exists(Store, fcall'.model_type, fcall'.identifier) => fcall'.returned
             /\ ~db_exists(StoreAfter, fcall'.model_type, fcall'.identifier)
             /\ db_get(StoreAfter, fcall'.model_type, fcall'.identifier) = None]_vars

\* C22: update(entity, key) returns true exactly when a record of that type and key is
\* stored; it then replaces that record's value and writes nothing else; when no such
\* record is stored it returns false and leaves the records and the indexes as they
\* were.
C22_UpdateOnlyExisting ==
    [][fcall'.op = "update" =>
          LET key == _generate_key(fcall'.model_type, fcall'.identifier)
              existed == key \in DOMAIN kv
          IN  /\ fcall'.returned <=> existed
              /\ sets' = sets
              /\ DOMAIN kv' = DOMAIN kv
              /\ \A k \in DOMAIN kv \ {key} : kv'[k] = kv[k]
              /\ existed => kv'[key] = _serialize(fcall'.obj)]_vars

\* an update of a record that is not stored, on a store that holds other records, has
\* returned false and created neither the record nor an index entry
C22_Witness ==
    /\ fcall.op = "update"
    /\ ~fcall.returned
    /\ kv # NoKeys
    /\ ~db_exists(Store, fcall.model_type, fcall.identifier)
    /\ fcall.identifier \notin smembers(sets, _generate_list_key(fcall.model_type))

---------------------------------------------------------------------------
(* The chain of the stages *)

\* the stage a stage dispatches to
NextStage(task) ==
    CASE task = "process_metadata" -> "process_chapter"
      [] task = "process_chapter" -> "process_tts"
      [] task = "process_tts" -> "process_converter"
      [] task = "process_converter" -> "process_completed"
      [] task = "process_completed" -> "process_sync"
      [] task = "process_sync" -> "none"

\* the attempts that end in a step, and the messages the step adds to the queue
Ending == done' \ done
Sent == queue' (-) queue

\* C23: the step in which a stage execution ends with success adds exactly one message
\* to the queue, for the next stage of the chain and the same chapter fingerprint, with
\* no redelivery count; an execution of Remote-Sync, and an execution that ends in any
\* other way (failed, dropped, skipped), adds no message for another stage (at most its
\* own redelivery).
C23_OneDownstreamUnit ==
    [][\A d \in Ending :
          d.task \in StageTasks \cup {"process_sync"} =>
             LET downstream == {m \in BagToSet(Sent) : m.task # d.task}
             IN  IF d.outcome = "success" /\ d.task # "process_sync"
                 THEN /\ BagToSet(Sent) = downstream
                      /\ Cardinality(downstream) = 1
                      /\ \A m \in downstream : /\ CopiesIn(m, Sent) = 1
                                               /\ m.task = NextStage(d.task)
                                               /\ m.arg = d.key
                                               /\ m.retries = 0
                 ELSE downstream = {}]_vars

\* a chapter has gone through the five stages and Remote-Sync, each with success, after
\* an attempt of one of them had failed
C23_Witness ==
    /\ \A t \in StageTasks \cup {"process_sync"} :
          \E d \in done : d.task = t /\ d.outcome = "success"
    /\ \E d \in done : d.task \in StageTasks /\ d.failed

\* C24: whenever a Speech-Synthesis or Media-Mux unit of work is in the queue for a
\* chapter fingerprint (an execution of these stages holds its unit for one step only),
\* a Scraped Chapter Content record with that fingerprint is in the store.
C24_ContentStoredBeforeUnit ==
    \A m \in BagToSet(queue) :
        m.task \in {"process_tts", "process_converter"} =>
            db_exists(Store, "scrapedchaptercontent", m.arg)

\* a Media-Mux unit is queued for a chapter whose content is stored, after a failed
\* attempt of an earlier stage
C24_Witness ==
    /\ \E m \in BagToSet(queue) : /\ m.task = "process_converter"
                                  /\ db_get(Store, "scrapedchaptercontent", m.arg) # None
    /\ \E d \in done : d.failed

---------------------------------------------------------------------------
(* FaultSpec: one chapter goes through the stages while the SET command of *)
(* the store fails for some time (redis_client.set raises inside db.save). *)
(* The other collaborators work.                                           *)

Fail(c) ==
    /\ c \notin down
    /\ down' = down \cup {c}
    /\ UNCHANGED <<kv, sets, locks, queue, exec, done, injected, site, fcall, built>>

FaultInit ==
    /\ RetryInit
    /\ down = {}

FaultNext ==
    \/ Discovery
    \/ Stages
    \/ Tick
    \/ Fail("redis_set")
    \/ Repair("redis_set")

FaultSpec == FaultInit /\ [][FaultNext]_vars

\* the stored status value of a chapter after a step, "" when no record is stored
StatusAfter(hash) ==
    IF _generate_key("chapterprocessingdata", hash) \in DOMAIN kv'
    THEN kv'[_generate_key("chapterprocessingdata", hash)].status
    ELSE ""

\* C25 as stated: a handler returns success and dispatches downstream only when its
\* store writes took effect: when a Chapter-Scrape execution ends with success the
\* scraped content is stored, when a Completion execution ends with success the
\* chapter is stored COMPLETED, and an execution of either that did not end with
\* success has sent nothing downstream.
C25_SuccessMeansWritten ==
    [][\A d \in Ending :
          /\ (d.task = "process_chapter" /\ d.outcome = "success") =>
                _generate_key("scrapedchaptercontent", d.key) \in DOMAIN kv'
          /\ (d.task = "process_completed" /\ d.outcome = "success") =>
                StatusAfter(d.key) = "completed"
          /\ (d.task \in {"process_chapter", "process_completed"} /\ d.outcome # "success") =>
                {m \in BagToSet(Sent) : m.task # d.task} = {}]_vars

---------------------------------------------------------------------------
(* RetryFairSpec: RetrySpec with workers that keep working and time that   *)
(* keeps passing: a step that stays possible is eventually taken.  No      *)
(* worker is lost.                                                         *)

RetryFairSpec == RetrySpec /\ WF_vars(RetryNext)

Quiescent == queue = EmptyBag /\ \A w \in Workers : exec[w] = Idle

\* C26: no unit of work is redelivered more often than the retry ceiling of its stage,
\* and every behaviour reaches a state from which on no unit of work is queued or
\* executing: every dispatched unit has ended (succeeded, was dropped as not found or
\* skipped, or was dropped after its last redelivery).
C26_EveryUnitEnds ==
    /\ [](\A m \in BagToSet(queue) : m.retries <= max_retries(m.task))
    /\ <>[]Quiescent

\* a unit has been dropped at its retry ceiling after failing on every delivery, and
\* nothing is queued or executing any more
C26_Witness ==
    /\ Quiescent
    /\ \E d \in done : d.failed /\ ~d.redelivered /\ d.retries = max_retries(d.task)
    /\ \A d \in done : d.task = "process_tts" => d.failed

\* C27: the step by which a Chapter-Scrape execution comes to its call of the scraping
\* collaborator leaves the chapter stored PROCESSING; and once an execution has ended
\* without content (nothing was dispatched, so no later unit of work exists for the
\* chapter) the chapter is stored PROCESSING in every later state: not PENDING, not
\* COMPLETED.
C27_StaysProcessing ==
    [][/\ \A w \in Workers :
             (/\ exec[w] = Idle
              /\ exec'[w].pc = "scrape"
              /\ exec'[w].task = "process_chapter")
             => StatusAfter(exec'[w].msg.arg) = "processing"
       /\ \A d \in done' :
             (d.task = "process_chapter" /\ d.outcome = "no_content")
             => StatusAfter(d.key) = "processing"]_vars

\* the scrape gave no content, the unit was dropped, nothing is queued or executing and
\* the chapter is stored PROCESSING
C27_Witness ==
    /\ Quiescent
    /\ \E d \in done : /\ d.task = "process_chapter" /\ d.outcome = "no_content"
                       /\ GetChapter(d.key) # None
                       /\ GetChapter(d.key).status = "PROCESSING"

\* the keys of the Chapter records, and the steps of the three stages that write them:
\* Book-Discovery's chapter.save(), Chapter-Scrape's save of PROCESSING, and a
\* Completion execution (it takes its message in the step)
ChapterKeys(k) == {x \in DOMAIN k : k[x].type = "chapterprocessingdata"}
ChapterWriterStep ==
    \/ \E w \in Workers : /\ exec[w].pc = "save"
                          /\ exec'[w] # exec[w]
    \/ \E w \in Workers : /\ exec[w] = Idle
                          /\ exec'[w].pc = "scrape"
                          /\ exec'[w].task = "process_chapter"
    \/ \E m \in BagToSet(queue) : /\ m.task = "process_completed"
                                  /\ CopiesIn(m, queue') < CopiesIn(m, queue)

\* C28: a step that creates a Chapter record or changes one is a step of
\* Book-Discovery, Chapter-Scrape or Completion, so an execution of
\* Metadata-Enrichment, Speech-Synthesis, Media-Mux or Remote-Sync leaves every Chapter
\* record as it is however it ends; and no step of a handler removes a record or an
\* entry of an index from the store (Remote-Sync removes only its own marker from the
\* pending-sync set).
C28_ChapterWriters ==
    [][/\ (\E k \in ChapterKeys(kv') : k \notin DOMAIN kv \/ kv'[k] # kv[k])
             => ChapterWriterStep
       /\ DOMAIN kv \subseteq DOMAIN kv'
       /\ \A s \in DOMAIN sets \ {RSYNC_PENDING_KEY} :
             s \in DOMAIN sets' /\ sets[s] \subseteq sets'[s]]_vars

\* Metadata-Enrichment, Speech-Synthesis, Media-Mux and Remote-Sync have each ended
\* with success and one of them with a failure before, and the chapter is stored with
\* the status Completion gave it
C28_Witness ==
    /\ \A t \in {"process_metadata", "process_tts", "process_converter", "process_sync"} :
          \E d \in done : d.task = t /\ d.outcome = "success"
    /\ \E d \in done : /\ d.task \in {"process_metadata", "process_tts",
                                      "process_converter", "process_sync"}
                       /\ d.failed
    /\ \A c \in Stored(Store, "chapterprocessingdata") : c.status = "COMPLETED"

\* the Remote-Sync executions in progress for a book name (from the load of the
\* chapter to the return), and the outcomes of an execution that had the lock
SyncRunning(book_name) ==
    {w \in Workers : exec[w] # Idle /\ exec[w].task = "process_sync"
                     /\ exec[w].chapter.book_name = book_name}
LockedOutcomes == {"success", "error", "timeout"}

\* C29: when a Remote-Sync execution that had acquired the lock has ended (transfer
\* succeeded, exited non-zero or timed out) and no Remote-Sync execution for the same
\* book name is in progress, the book name is not in the pending-sync set.
C29_PendingCleared ==
    \A d \in SyncAttempts :
        (/\ d.outcome \in LockedOutcomes
         /\ SyncRunning(GetChapter(d.key).book_name) = {})
        => GetChapter(d.key).book_name \notin smembers(sets, RSYNC_PENDING_KEY)

\* the transfers of both chapters have timed out, one of them on its last delivery, no
\* Remote-Sync is in progress, and the pending-sync set is empty
C29_Witness ==
    /\ \E d \in SyncAttempts : d.outcome = "timeout" /\ d.key = generate_hash(LinkA)
    /\ \E d \in SyncAttempts : d.outcome = "timeout" /\ d.key = generate_hash(LinkB)
    /\ \E d \in SyncAttempts : d.outcome = "timeout" /\ ~d.redelivered
    /\ \A w \in Workers : exec[w] = Idle
    /\ smembers(sets, RSYNC_PENDING_KEY) = {}

\* C30 as stated: a Chapter record stored with status COMPLETED keeps that status in
\* every later state, whatever handler takes the next step.
C30_CompletedIsFinal ==
    [][\A k \in ChapterKeys(kv) :
          kv[k].status = "completed" =>
             k \in DOMAIN kv' /\ kv'[k].status = "completed"]_vars

---------------------------------------------------------------------------
(* The lock of Remote-Sync *)

\* C31 as stated: an execution whose own lock has expired (its transfer has lasted at
\* least the time-to-live, so a lock key that is present was set by another execution)
\* leaves the lock key in the store when it leaves its transfer.
C31_DeletesOwnLockOnly ==
    [][\A w \in Workers :
          (/\ exec[w].pc = "transfer"
           /\ exec'[w].pc # "transfer"
           /\ exec[w].elapsed >= Ticks(LOCK_TTL)
           /\ lock_key(exec[w].chapter) \in DOMAIN locks)
          => /\ lock_key(exec[w].chapter) \in DOMAIN locks'
             /\ locks'[lock_key(exec[w].chapter)] = locks[lock_key(exec[w].chapter)]]_vars

\* C32: the step in which an execution ends as "skipped" (it lost the lock) leaves the
\* lock key with the value and the remaining time-to-live it had, leaves the
\* pending-sync set with the members it had, and puts no execution at its transfer or
\* at the step before it.
C32_LoserChangesNothing ==
    [][(\E d \in Ending : d.task = "process_sync" /\ d.outcome = "skipped")
          => /\ \A k \in DOMAIN locks : k \in DOMAIN locks' /\ locks'[k] = locks[k]
             /\ DOMAIN locks' = DOMAIN locks
             /\ smembers(sets', RSYNC_PENDING_KEY) = smembers(sets, RSYNC_PENDING_KEY)
             /\ \A w \in Workers :
                   exec'[w].pc \in {"sadd", "transfer"} => exec'[w] = exec[w]]_vars

\* an execution has been skipped while the winner is at its transfer, holding the lock,
\* with the book name in the pending-sync set
C32_Witness ==
    /\ \E d \in SyncAttempts : d.outcome = "skipped"
    /\ \E w \in Workers :
          /\ exec[w].pc = "transfer"
          /\ lock_key(exec[w].chapter) \in DOMAIN locks
          /\ exec[w].chapter.book_name \in smembers(sets, RSYNC_PENDING_KEY)

---------------------------------------------------------------------------
(* CoverSpec: two chapters of one book.  The first is COMPLETED and its     *)
(* Remote-Sync unit waits out its countdown; the second has left Media-Mux  *)
(* and its Completion unit is queued.  Transfers succeed, workers keep      *)
(* working and time keeps passing.                                          *)

CoverStore ==
    chapter_save(
        chapter_save(
            db_save(EmptyStore, ScrapedBook(SiteTitle, <<LinkA, LinkB>>, "", GoodReadsUrl),
                    book_generate_hash([title |-> SiteTitle])),
            CompletedChapter(LinkA, 0)),
        [CompletedChapter(LinkB, 1) EXCEPT !.status = "PROCESSING"])

CoverInit ==
    /\ down = {}
    /\ kv = CoverStore.kv /\ sets = CoverStore.sets /\ locks = NoKeys
    /\ queue = SetToBag({Msg("process_sync", generate_hash(LinkA), SYNC_DELAY),
                         Msg("process_completed", generate_hash(LinkB), 0)})
    /\ exec = [w \in Workers |-> Idle] /\ done = {} /\ injected = 1
    /\ site = <<LinkA, LinkB>> /\ fcall = [op |-> "none"] /\ built = {}

CoverNext ==
    \/ \E m \in BagToSet(queue) : CompletedRun(m)
    \/ \E w \in Workers, m \in BagToSet(queue) : SyncReceive(w, m)
    \/ \E w \in Workers : SyncLock(w)
    \/ \E w \in Workers : SyncSadd(w)
    \/ \E w \in Workers : SyncTransferEnd(w)
    \/ Tick

CoverSpec == CoverInit /\ [][CoverNext]_vars /\ WF_vars(CoverNext)

\* the chapter is stored COMPLETED, and an execution for its book name has the lock
\* and is about to start its transfer
IsCompleted(hash) == GetChapter(hash) # None /\ GetChapter(hash).status = "COMPLETED"
TransferStartsFor(hash) ==
    \E w \in Workers : /\ exec[w].pc = "sadd"
                       /\ exec[w].chapter.book_name = GetChapter(hash).book_name

\* C33 as stated: every chapter that reaches COMPLETED is eventually covered by a
\* transfer for its book that starts when the chapter is already COMPLETED.
C33_CompletedIsTransferred ==
    \A hash \in {generate_hash(LinkA), generate_hash(LinkB)} :
        <>IsCompleted(hash) => <>(IsCompleted(hash) /\ TransferStartsFor(hash))

---------------------------------------------------------------------------
(* RouteSpec: the pipeline of Spec started on a store with or without the  *)
(* book's Metadata record, so that the first discovery run dispatches on   *)
(* either route.  Every collaborator works, no worker is lost, and a step  *)
(* that stays possible is eventually taken.                                *)

RouteInit ==
    /\ down = {}
    /\ \E st \in {EmptyStore, MetadataOnly} : kv = st.kv /\ sets = st.sets
    /\ locks = NoKeys /\ queue = EmptyBag
    /\ exec = [w \in Workers |-> Idle] /\ done = {} /\ injected = 0
    /\ fcall = [op |-> "none"] /\ built = {}
    /\ site = <<LinkA>>

RouteSpec == RouteInit /\ [][Next]_vars /\ WF_vars(Next)

HasStatus(hash, status) == GetChapter(hash) # None /\ GetChapter(hash).status = status

\* C34: whenever the chapter is stored PENDING (Book-Discovery stores it so in the step
\* that dispatches it, on either route) it is later stored PROCESSING, and whenever it
\* is stored PROCESSING it is later stored COMPLETED.
C34_PendingReachesCompleted ==
    /\ HasStatus(generate_hash(LinkA), "PENDING") ~> HasStatus(generate_hash(LinkA), "PROCESSING")
    /\ HasStatus(generate_hash(LinkA), "PROCESSING") ~> HasStatus(generate_hash(LinkA), "COMPLETED")

\* the chapter was dispatched directly to Chapter-Scrape (no Metadata-Enrichment
\* execution has ended) and is stored COMPLETED
C34_Witness ==
    /\ HasStatus(generate_hash(LinkA), "COMPLETED")
    /\ \A d \in done : d.task # "process_metadata"
    /\ \E d \in done : d.task = "process_chapter" /\ d.outcome = "success"

---------------------------------------------------------------------------
(* The Metadata record and the stages that follow Metadata-Enrichment *)

\* the units of work and executions of Chapter-Scrape and of the stages after it
AfterEnrichment == {"process_chapter", "process_tts", "process_converter"}
MetadataOf(hash) ==
    IF GetChapter(hash) = None THEN None
    ELSE db_get(Store, "scrapedmetadata", GetChapter(hash).book_hash)

\* C35: while a unit of work of Chapter-Scrape or of a later stage up to Media-Mux is
\* queued or executing for a chapter, the Metadata record of the chapter's book is
\* stored; a stored Metadata record is never removed; and no Media-Mux execution ends
\* for want of a record.
C35_MetadataBeforeChapterScrape ==
    /\ [](/\ \A m \in BagToSet(queue) : m.task \in AfterEnrichment => MetadataOf(m.arg) # None
          /\ \A w \in Workers : exec[w].pc = "scrape" /\ exec[w].task = "process_chapter"
                                   => MetadataOf(exec[w].msg.arg) # None
          /\ \A d \in done : d.task = "process_converter" => d.outcome # "not_found")
    /\ [][\A id \in {generate_hash(LinkA)} : MetadataOf(id) # None => MetadataOf(id)' # None]_vars

\* Metadata-Enrichment has stored the record and dispatched the chapter, and Media-Mux
\* has found it
C35_Witness ==
    /\ \E d \in done : d.task = "process_metadata" /\ d.outcome = "success"
    /\ \E d \in done : d.task = "process_converter" /\ d.outcome = "success"
    /\ \E m \in BagToSet(queue) : m.task = "process_chapter"
    /\ MetadataOf(generate_hash(LinkA)) # None

\* C36: a step that takes a Metadata-Enrichment unit of work from the queue while the
\* Metadata record of the chapter's book is stored leaves the store as it is, starts
\* no execution that goes on to scrape_book_metadata, and sends one unit of work and
\* no more: process_chapter for the same chapter.
C36_ExistingMetadataIsKept ==
    [][\A m \in Ready("process_metadata") :
          (CopiesIn(m, queue') < CopiesIn(m, queue) /\ MetadataOf(m.arg) # None)
          => /\ kv' = kv /\ sets' = sets
             /\ exec' = exec
             /\ Sent = SetToBag({Msg("process_chapter", m.arg, 0)})]_vars

\* the record is stored, a Metadata-Enrichment execution has ended with a dispatch,
\* every unit of Metadata-Enrichment of both runs has been taken, and two units of
\* Chapter-Scrape are queued
C36_Witness ==
    /\ MetadataOf(generate_hash(LinkA)) # None
    /\ injected = 2
    /\ \A m \in BagToSet(queue) : m.task # "process_metadata"
    /\ \A w \in Workers : exec[w] = Idle
    /\ \E d \in done : d.task = "process_metadata" /\ d.outcome = "success" /\ d.dispatched = 1
    /\ CopiesIn(Msg("process_chapter", generate_hash(LinkA), 0), queue) = 2

---------------------------------------------------------------------------
(* The chapter set-index of a book *)

ChapterHashes == {generate_hash(l) : l \in {LinkA, LinkB, LinkC}}
BookChapters(book_hash) == smembers(sets, "book:" \o book_hash \o ":chapters")

\* C37: the fingerprint of every stored Chapter record is a member of the set
\* book:<book_hash>:chapters of the book fingerprint the record carries.
C37_ChapterIsIndexed ==
    \A hash \in ChapterHashes :
        GetChapter(hash) # None => hash \in BookChapters(GetChapter(hash).book_hash)

\* Book-Discovery stored the chapter and Completion stored it again
C37_Witness ==
    /\ HasStatus(generate_hash(LinkA), "COMPLETED")
    /\ generate_hash(LinkA) \in BookChapters(GetChapter(generate_hash(LinkA)).book_hash)
    /\ \E d \in done : d.task = "process_completed" /\ d.outcome = "success"

---------------------------------------------------------------------------
(* CallSpec: RedisDB.save and RedisDB.delete called by concurrent clients. *)
(* Each call is two commands sent to the server one after the other (SET   *)
(* then SADD; DELETE then SREM), so the commands of two calls interleave.  *)
(* injected counts the calls made.                                         *)

MaxCalls == 3        \* calls made in one behaviour

CallEntities ==
    {BookProcessingData("Test Processing Book", "h1"),
     ScrapedChapterContent("A", "text", "h1", "a")}
CallTypes == {e.type : e \in CallEntities}

\* save up to and including redis_client.set(key, serialized_data)
SaveSet(w, obj, identifier) ==
    /\ exec[w] = Idle
    /\ injected < MaxCalls
    /\ injected' = injected + 1
    /\ kv' = [k \in DOMAIN kv \cup {_generate_key(obj.type, identifier)} |->
                 IF k = _generate_key(obj.type, identifier) THEN _serialize(obj) ELSE kv[k]]
    /\ exec' = [exec EXCEPT ![w] = [task |-> "db.save", pc |-> "save_sadd",
                                    model_type |-> obj.type, identifier |-> identifier]]
    /\ UNCHANGED <<sets, locks, queue, done, down, site, fcall, built>>

\* save from redis_client.sadd(list_key, identifier) on
SaveSadd(w) ==
    /\ exec[w].pc = "save_sadd"
    /\ sets' = sadd(sets, _generate_list_key(exec[w].model_type), exec[w].identifier)
    /\ exec' = [exec EXCEPT ![w] = Idle]
    /\ UNCHANGED <<kv, locks, queue, done, injected, down, site, fcall, built>>

\* delete up to and including redis_client.delete(key)
DeleteDel(w, model_type, identifier) ==
    /\ exec[w] = Idle
    /\ injected < MaxCalls
    /\ injected' = injected + 1
    /\ kv' = [k \in DOMAIN kv \ {_generate_key(model_type, identifier)} |-> kv[k]]
    /\ exec' = [exec EXCEPT ![w] = [task |-> "db.delete", pc |-> "delete_srem",
                                    model_type |-> model_type, identifier |-> identifier]]
    /\ UNCHANGED <<sets, locks, queue, done, down, site, fcall, built>>

\* delete from redis_client.srem(list_key, identifier) on
DeleteSrem(w) ==
    /\ exec[w].pc = "delete_srem"
    /\ sets' = srem(sets, _generate_list_key(exec[w].model_type), exec[w].identifier)
    /\ exec' = [exec EXCEPT ![w] = Idle]
    /\ UNCHANGED <<kv, locks, queue, done, injected, down, site, fcall, built>>

CallNext ==
    \/ \E w \in Workers, obj \in CallEntities, id \in CrudKeys : SaveSet(w, obj, id)
    \/ \E w \in Workers : SaveSadd(w)
    \/ \E w \in Workers, t \in CallTypes, id \in CrudKeys : DeleteDel(w, t, id)
    \/ \E w \in Workers : DeleteSrem(w)

CallSpec == InitIdle /\ [][CallNext]_vars

\* RedisDB.list_all: the entities got for the members of <type>:all, those whose get
\* returns None left out
db_list_all(st, model_type) ==
    {id \in smembers(st.sets, _generate_list_key(model_type)) :
        db_get(st, model_type, id) # None}

\* C38 as stated: whenever no store call is in progress, an identifier is in the index
\* set of a type exactly when a record of that type and key is stored, and count(type)
\* is the number of entities list_all(type) returns.
C38_IndexMatchesRecords ==
    (\A w \in Workers : exec[w] = Idle)
    => \A t \in CallTypes :
          /\ \A id \in CrudKeys :
                id \in smembers(sets, _generate_list_key(t)) <=> db_exists(Store, t, id)
          /\ db_count(Store, t) = Cardinality(db_list_all(Store, t))

====
